---- MODULE Spec2Model ----
(***************************************************************************)
(* Conversation orchestration core of the travel agent:                    *)
(*   - backend/travel_agent/agents.py : plan diff / rerun gate, tool keys, *)
(*     date gate, sequential executor, result resolver and synthesis       *)
(*   - backend/travel_agent/graph.py  : node wiring                        *)
(*   - backend/main.py                : /chat, /chat/resume, job table,    *)
(*     awaiting-resume table, SQLite checkpoints                           *)
(*                                                                         *)
(* Encoding of Python values:                                              *)
(*   Optional[str]  : the string None stands for Python None               *)
(*   Optional[X]    : <<>> is None, <<x>> is a present value (plan, info)  *)
(*   dates          : day ordinals (10 is 2026-04-10); NoDate is None and  *)
(*                    BadDate a string that strptime rejects               *)
(*   md5(..)[:8]    : taken as injective on the joined key string, so a    *)
(*                    key is the tuple of its "|"-joined parts             *)
(***************************************************************************)
EXTENDS Integers, Sequences, FiniteSets, TLC

None == "None"
NoDate == 0
BadDate == -1
NoBudget == -1

Max(S) == CHOOSE x \in S : \A y \in S : y <= x

Last(s) == s[Len(s)]

\* F applied to the value of e (e is evaluated once)
Bind(e, F(_)) == CHOOSE y \in {F(x) : x \in {e}} : TRUE

\* ---------------------------------------------------------------------------
\* Bounds
\* ---------------------------------------------------------------------------
MaxTurns == 3

\* ---------------------------------------------------------------------------
\* schemas.py
\* ---------------------------------------------------------------------------
Intents == {"full_plan", "flights_only", "hotels_only", "activities_only"}

ToolOrder == <<"search_flights", "search_and_compare_hotels", "search_activities_by_city">>

ToolNames == {ToolOrder[i] : i \in 1..Len(ToolOrder)}

PlanFields ==
  {"origin", "destination", "departure_date", "return_date", "duration_days",
   "adults", "travel_class", "departure_time_pref", "arrival_time_pref",
   "total_budget", "user_intent"}

StrFields ==
  {"origin", "destination", "travel_class", "departure_time_pref",
   "arrival_time_pref", "user_intent"}

\* TravelPlan(destination=d): every other field at its declared default
TravelPlan(d) ==
  [origin |-> None, destination |-> d, departure_date |-> NoDate,
   return_date |-> NoDate, duration_days |-> 0, adults |-> 1,
   travel_class |-> "ECONOMY", departure_time_pref |-> None,
   arrival_time_pref |-> None, total_budget |-> NoBudget,
   user_intent |-> "full_plan"]

\* the cleared value of a field: setattr(travel_plan, field, None)
NoneOf(f) ==
  IF f \in StrFields THEN None
  ELSE IF f = "total_budget" THEN NoBudget
  ELSE IF f = "duration_days" THEN 0
  ELSE NoDate

\* Python truthiness of an Optional[str]
StrTruthy(v) == v # None /\ v # ""

\* ---------------------------------------------------------------------------
\* agents.py : diff / rerun flags
\* ---------------------------------------------------------------------------
changed_fields(prev, new) == {k \in PlanFields : prev[k] # new[k]}

flights_deps ==
  {"origin", "destination", "departure_date", "return_date", "adults",
   "travel_class", "departure_time_pref", "arrival_time_pref", "user_intent"}

\* hotels that do not depend on the number of travellers
hotels_deps_without_adults == {"destination", "departure_date", "return_date", "user_intent"}

hotels_deps == {"destination", "departure_date", "return_date", "adults", "user_intent"}

activities_deps == {"destination", "user_intent"}

\* prev is an Optional[TravelPlan]; the result is indexed by tool name
compute_rerun_flags(prev, new) ==
  IF prev = <<>>
    THEN [t \in ToolNames |-> TRUE]
    ELSE Bind(changed_fields(prev[1], new), LAMBDA changed :
           [t \in ToolNames |->
              IF changed = {"total_budget"} THEN FALSE
              ELSE IF t = "search_flights" THEN (changed \cap flights_deps) # {}
              ELSE IF t = "search_and_compare_hotels" THEN (changed \cap hotels_deps) # {}
              ELSE (changed \cap activities_deps) # {}])

\* ---------------------------------------------------------------------------
\* agents.py : tool keys
\* ---------------------------------------------------------------------------
\* str(kwargs.get(k) or plan_value or "") for a string-valued part
StrPart(kw, k, pv) ==
  IF k \in DOMAIN kw /\ StrTruthy(kw[k]) THEN kw[k]
  ELSE IF StrTruthy(pv) THEN pv ELSE ""

\* the same for a date-valued part; NoDate renders as the empty string
DatePart(kw, k, pv) ==
  IF k \in DOMAIN kw /\ kw[k] # NoDate THEN kw[k] ELSE pv

\* the key with total_budget added to every tool's parts
compute_tool_key_with_budget(tool_name, tp, kw) ==
  IF tool_name = "search_flights" THEN
    <<StrPart(kw, "originLocationCode", tp.origin),
      StrPart(kw, "destinationLocationCode", tp.destination),
      DatePart(kw, "departureDate", tp.departure_date),
      DatePart(kw, "returnDate", tp.return_date),
      tp.adults,
      StrPart(<<>>, "", tp.travel_class),
      StrPart(<<>>, "", tp.departure_time_pref),
      StrPart(<<>>, "", tp.arrival_time_pref),
      IF "one_way" \in DOMAIN kw /\ kw["one_way"] THEN "one_way" ELSE "round_trip",
      tp.total_budget>>
  ELSE IF tool_name = "search_and_compare_hotels" THEN
    <<StrPart(kw, "city_code", tp.destination),
      DatePart(kw, "check_in_date", tp.departure_date),
      DatePart(kw, "check_out_date", tp.return_date),
      tp.adults, tp.total_budget>>
  ELSE IF tool_name = "search_activities_by_city" THEN
    <<StrPart(kw, "city_name", tp.destination), tp.total_budget>>
  ELSE <<>>

compute_tool_key(tool_name, tp, kw) ==
  IF tool_name = "search_flights" THEN
    <<StrPart(kw, "originLocationCode", tp.origin),
      StrPart(kw, "destinationLocationCode", tp.destination),
      DatePart(kw, "departureDate", tp.departure_date),
      DatePart(kw, "returnDate", tp.return_date),
      tp.adults,
      StrPart(<<>>, "", tp.travel_class),
      StrPart(<<>>, "", tp.departure_time_pref),
      StrPart(<<>>, "", tp.arrival_time_pref),
      IF "one_way" \in DOMAIN kw /\ kw["one_way"] THEN "one_way" ELSE "round_trip">>
  ELSE IF tool_name = "search_and_compare_hotels" THEN
    <<StrPart(kw, "city_code", tp.destination),
      DatePart(kw, "check_in_date", tp.departure_date),
      DatePart(kw, "check_out_date", tp.return_date),
      tp.adults>>
  ELSE IF tool_name = "search_activities_by_city" THEN
    <<StrPart(kw, "city_name", tp.destination)>>
  ELSE <<>>

\* tool_call_id = f"call_{tool}:{key}:{i}" is the triple <<tool, key, i>>
extract_tool_key_from_call_id(tool_call_id) ==
  IF Len(tool_call_id) >= 3 THEN <<tool_call_id[2]>> ELSE <<>>

OrEmpty(v) == IF StrTruthy(v) THEN v ELSE ""

\* the key arguments with the direction left at round-trip
semantic_key_kwargs_for_tool_round_trip(tp, tool_name, one_way) ==
  IF tool_name = "search_flights" THEN
    [originLocationCode |-> OrEmpty(tp.origin),
     destinationLocationCode |-> OrEmpty(tp.destination),
     departureDate |-> tp.departure_date,
     returnDate |-> tp.return_date,
     one_way |-> FALSE]
  ELSE IF tool_name = "search_and_compare_hotels" THEN
    [city_code |-> OrEmpty(tp.destination),
     check_in_date |-> tp.departure_date,
     check_out_date |-> tp.return_date]
  ELSE IF tool_name = "search_activities_by_city" THEN
    [city_name |-> OrEmpty(tp.destination)]
  ELSE <<>>

semantic_key_kwargs_for_tool(tp, tool_name, one_way) ==
  IF tool_name = "search_flights" THEN
    [originLocationCode |-> OrEmpty(tp.origin),
     destinationLocationCode |-> OrEmpty(tp.destination),
     departureDate |-> tp.departure_date,
     returnDate |-> tp.return_date,
     one_way |-> one_way]
  ELSE IF tool_name = "search_and_compare_hotels" THEN
    [city_code |-> OrEmpty(tp.destination),
     check_in_date |-> tp.departure_date,
     check_out_date |-> tp.return_date]
  ELSE [city_name |-> OrEmpty(tp.destination)]

\* a payload is the list of offers of one ToolMessage
tool_content_is_all_error_placeholders(content) ==
  /\ Len(content) > 0
  /\ \A i \in 1..Len(content) : content[i].is_error

\* ---------------------------------------------------------------------------
\* agents.py : date gate
\* ---------------------------------------------------------------------------
\* datetime.strptime(d, "%Y-%m-%d") or None
parse_ymd(d) == IF d > 0 THEN d ELSE NoDate

\* returns the (possibly completed) plan, ok and the question to ask
normalize_dates_or_ask(tp) ==
  LET dep == tp.departure_date
      ret == tp.return_date
      dur == tp.duration_days
      dep_dt == IF dep # NoDate THEN parse_ymd(dep) ELSE NoDate
      ret_dt == IF ret # NoDate THEN parse_ymd(ret) ELSE NoDate
      No(q) == [ok |-> FALSE, ask |-> q, plan |-> tp]
  IN IF ~StrTruthy(tp.destination) THEN No("ask_destination")
     ELSE IF dep # NoDate /\ dep_dt = NoDate THEN No("ask_departure_format")
     ELSE IF ret # NoDate /\ ret_dt = NoDate THEN No("ask_return_format")
     ELSE IF dep_dt # NoDate /\ ret_dt # NoDate THEN
       IF ret_dt <= dep_dt THEN No("ask_return_after_departure")
       ELSE [ok |-> TRUE, ask |-> "",
             plan |-> IF dur = 0 THEN [tp EXCEPT !.duration_days = ret_dt - dep_dt] ELSE tp]
     ELSE IF dep_dt # NoDate /\ dur # 0 THEN
       IF dur <= 0 THEN No("ask_positive_duration")
       ELSE [ok |-> TRUE, ask |-> "", plan |-> [tp EXCEPT !.return_date = dep_dt + dur]]
     ELSE IF ret_dt # NoDate /\ dur # 0 THEN
       IF dur <= 0 THEN No("ask_positive_duration")
       ELSE [ok |-> TRUE, ask |-> "", plan |-> [tp EXCEPT !.departure_date = ret_dt - dur]]
     ELSE No("ask_travel_dates")

\* ---------------------------------------------------------------------------
\* User utterances.  The plan extractor is an opaque collaborator: each
\* utterance carries the patch the extractor derives from it, and the values
\* of the deterministic text predicates of agents.py / tools.py on its text:
\*   low_signal    _is_low_signal_user_input      (agents.py)
\*   refresh       _is_refresh_recommendation     (tools.py)
\*   override      _infer_intent_override         (agents.py)
\*   inferred      _infer_intent_from_text        (tools.py)
\*   mentions_date _text_mentions_date            (agents.py)
\* ---------------------------------------------------------------------------
Utt(low, refresh, override, inferred, date, patch) ==
  [low_signal |-> low, refresh |-> refresh, override |-> override,
   inferred |-> inferred, mentions_date |-> date, patch |-> patch]

Utterance(u) ==
  CASE u = "trip" ->     \* "I want a trip from Paris to Tokyo."
         Utt(FALSE, FALSE, None, None, FALSE, [origin |-> "Paris", destination |-> "Tokyo"])
    [] u = "tripd" ->    \* "Paris to Tokyo, 2026-04-10 to 2026-04-14"
         Utt(FALSE, FALSE, None, None, TRUE,
             [origin |-> "Paris", destination |-> "Tokyo", departure_date |-> 10,
              return_date |-> 14])
    [] u = "tripbad" ->  \* "Paris to Tokyo, 2026-04-14 to 2026-04-10"
         Utt(FALSE, FALSE, None, None, TRUE,
             [origin |-> "Paris", destination |-> "Tokyo", departure_date |-> 14,
              return_date |-> 10])
    [] u = "dates" ->    \* "depart 2026-04-10 for 4 days"
         Utt(FALSE, FALSE, None, None, TRUE, [departure_date |-> 10, duration_days |-> 4])
    [] u = "budget" ->   \* "budget is 3000"
         Utt(FALSE, FALSE, None, None, FALSE, [total_budget |-> 3000])
    [] u = "osaka" ->    \* "change the destination to Osaka"
         Utt(FALSE, FALSE, None, None, FALSE, [destination |-> "Osaka"])
    [] u = "berlin" ->   \* "I will leave from Berlin"
         Utt(FALSE, FALSE, None, None, FALSE, [origin |-> "Berlin"])
    [] u = "check" ->    \* "Check my plan"
         Utt(FALSE, FALSE, None, None, FALSE, <<>>)
    [] u = "another" ->  \* "another one"
         Utt(FALSE, TRUE, None, None, FALSE, <<>>)
    [] u = "acts" ->     \* "only activities"
         Utt(FALSE, FALSE, "activities_only", None, FALSE, <<>>)
    [] u = "hotels" ->   \* "only hotels"
         Utt(FALSE, FALSE, "hotels_only", None, FALSE, <<>>)
    [] u = "hotelsd" ->  \* "hotels in Tokyo, 2026-04-10 to 2026-04-14"
         Utt(FALSE, FALSE, "hotels_only", None, TRUE,
             [destination |-> "Tokyo", departure_date |-> 10, return_date |-> 14])
    [] u = "flights" ->  \* "only flights"
         Utt(FALSE, FALSE, "flights_only", None, FALSE, <<>>)
    [] u = "full" ->     \* "plan everything for me"
         Utt(FALSE, FALSE, None, None, FALSE, [user_intent |-> "full_plan"])
    [] u = "ok" ->       \* "ok"
         Utt(TRUE, FALSE, None, None, FALSE, <<>>)
    [] u = "anywhere" -> \* "I need a holiday next spring": the extractor names no place
         Utt(FALSE, FALSE, None, None, FALSE, [destination |-> ""])
    [] u = "stay7" ->    \* "make it 7 days"
         Utt(FALSE, FALSE, None, None, FALSE, [duration_days |-> 7])

\* ---------------------------------------------------------------------------
\* tools.py : plan extractor boundary
\* ---------------------------------------------------------------------------
\* a patch value the merge skips: None or a blank string
SkippedValue(k, v) == k \in StrFields /\ ~StrTruthy(v)

MergePatch(base, patch) ==
  [k \in PlanFields |->
     IF k \in DOMAIN patch /\ ~SkippedValue(k, patch[k]) THEN patch[k] ELSE base[k]]

\* the plan the extractor builds from a free-text request: the validated
\* answer of the model is returned as it is, a blank destination included
enhanced_travel_analysis(u) ==
  Bind(Utterance(u).patch, LAMBDA patch :
    [MergePatch(TravelPlan("Tokyo"), patch) EXCEPT
       !.destination = IF "destination" \in DOMAIN patch THEN patch.destination ELSE @])

BIG_FIELDS ==
  {"origin", "destination", "departure_date", "return_date", "duration_days",
   "adults", "total_budget"}

\* the patch merged into prev, with the fallbacks for origin and destination
\* and the intent inferred from the text
MergedPlan(prev, utt) ==
  Bind(MergePatch(prev, utt.patch), LAMBDA merged :
    [merged EXCEPT
       !.origin = IF StrTruthy(@) THEN @ ELSE prev.origin,
       !.destination = IF StrTruthy(@) THEN @ ELSE prev.destination,
       !.user_intent = IF utt.inferred # None THEN utt.inferred ELSE @])

\* returns the new plan and whether it is the very object prev (aliased)
update_travel_plan(prev, u, llm_ok) ==
  Bind(Utterance(u), LAMBDA utt :
    IF utt.refresh \/ ~llm_ok THEN [plan |-> prev, alias |-> TRUE]
    ELSE IF /\ Cardinality(DOMAIN utt.patch \cap BIG_FIELDS) >= 4
            /\ ("destination" \in DOMAIN utt.patch \/ "origin" \in DOMAIN utt.patch)
      THEN Bind(enhanced_travel_analysis(u), LAMBDA rebuilt :
             IF ~StrTruthy(rebuilt.destination)
               THEN [plan |-> prev, alias |-> TRUE]
               ELSE [plan |-> rebuilt, alias |-> FALSE])
    ELSE [plan |-> MergedPlan(prev, utt), alias |-> FALSE])

\* ---------------------------------------------------------------------------
\* agents.py : intent change cleanup
\* ---------------------------------------------------------------------------
ClearedOnIntent(new_intent, mentions_date) ==
  IF new_intent = "activities_only" THEN
    {"origin", "travel_class", "departure_time_pref", "arrival_time_pref", "total_budget"}
      \cup (IF mentions_date THEN {} ELSE {"departure_date", "return_date", "duration_days"})
  ELSE IF new_intent = "hotels_only" THEN
    {"origin", "travel_class", "departure_time_pref", "arrival_time_pref",
     "departure_date", "return_date", "duration_days"}
  ELSE IF new_intent = "flights_only" THEN
    {"departure_date", "return_date", "duration_days"}
  ELSE {}

cleanup_inherited_fields_on_intent(tp, new_intent, changed, mentions_date) ==
  [k \in PlanFields |->
     IF k \in ClearedOnIntent(new_intent, mentions_date) /\ k \notin changed
       THEN NoneOf(k) ELSE tp[k]]

\* ---------------------------------------------------------------------------
\* Messages (langchain_core.messages) and graph state (schemas.TravelAgentState)
\* ---------------------------------------------------------------------------
HumanMessage(u) ==
  [type |-> "human", name |-> "", tool_call_id |-> <<>>, text |-> u, content |-> <<>>]

AIMessage(t) ==
  [type |-> "ai", name |-> "", tool_call_id |-> <<>>, text |-> t, content |-> <<>>]

ToolMessage(payload, tool_name, call_id) ==
  [type |-> "tool", name |-> tool_name, tool_call_id |-> call_id, text |-> "",
   content |-> payload]

\* the channels of a thread before its first invoke; the fields after
\* "interrupt" are observations of the latest invoke, not program state
EmptyState ==
  [messages |-> <<>>, travel_plan |-> <<>>, customer_info |-> <<>>,
   original_request |-> None, current_step |-> "", form_to_display |-> None,
   tools_used |-> <<>>, one_way |-> FALSE, is_continuation |-> FALSE,
   interrupt |-> FALSE,
   invoked |-> <<>>, extractor |-> FALSE, extractor_text |-> None,
   resolved |-> None, synthesized |-> FALSE,
   changed |-> {}, had_prev |-> FALSE,
   selected |-> [t \in ToolNames |-> 0],
   presented |-> [t \in ToolNames |-> <<>>], mode |-> "", turn |-> 0]

\* a customer form: {} is the only falsy dict
InfoTruthy(ci) == ci # <<>> /\ ~ci[1].empty

IntentToolSeq(intent) ==
  CASE intent = "flights_only" -> <<"search_flights">>
    [] intent = "hotels_only" -> <<"search_and_compare_hotels">>
    [] intent = "activities_only" -> <<"search_activities_by_city">>
    [] intent = "full_plan" -> ToolOrder
    [] OTHER -> <<>>

SeqRange(q) == {q[i] : i \in 1..Len(q)}

IntentTools(intent) == SeqRange(IntentToolSeq(intent))

\* ---------------------------------------------------------------------------
\* Search providers (tools.py) seen from the executor: the outcome of one call
\* ---------------------------------------------------------------------------
\* ("empty", a provider returning no offer, and "partial", the hotels provider
\* returning the offers of one source and the error item of the other, are
\* drawn in SpecSynth's histories)
ProviderOutcomes == {"ok", "raise"}

Offer(tool_name, turn) == [is_error |-> FALSE, tool |-> tool_name, turn |-> turn]

\* agents.py _tool_error_placeholder: one placeholder with is_error = True
tool_error_placeholder(tool_name, turn) ==
  <<[is_error |-> TRUE, tool |-> tool_name, turn |-> turn]>>

ToolContent(tool_name, outcome, turn) ==
  IF outcome = "ok" THEN <<Offer(tool_name, turn)>>
  ELSE IF outcome = "empty" THEN <<>>
  ELSE IF outcome = "partial"
    THEN tool_error_placeholder(tool_name, turn) \o <<Offer(tool_name, turn)>>
  ELSE tool_error_placeholder(tool_name, turn)

\* ---------------------------------------------------------------------------
\* agents.py : call_model_node
\* orc is what the collaborators do in this invoke:
\*   orc.llm_ok  the plan extractor answers       orc.prov[t]  provider outcome
\*   orc.iata    outcome of the airport lookup    orc.pkg_ok   package generator
\* ---------------------------------------------------------------------------
\* Node 2 with the first plan always analysed from the last message
PlanUpdate_from_last_text(s, u, llm_ok) ==
  IF s.travel_plan = <<>> THEN
    [plan |-> enhanced_travel_analysis(u), alias |-> FALSE, text |-> u]
  ELSE IF Utterance(u).refresh
    THEN [plan |-> s.travel_plan[1], alias |-> TRUE, text |-> None]
  ELSE Bind(update_travel_plan(s.travel_plan[1], u, llm_ok), LAMBDA upd :
         [plan |-> [upd.plan EXCEPT
                      !.destination = IF StrTruthy(@) THEN @
                                      ELSE s.travel_plan[1].destination,
                      !.origin = IF StrTruthy(@) THEN @ ELSE s.travel_plan[1].origin],
          alias |-> upd.alias, text |-> u])

\* Node 2: the plan of the turn, whether it is the very object of the
\* previous plan (the update returned prev), and the text handed to the plan
\* extractor (None when it is not called)
PlanUpdate(s, u, llm_ok) ==
  IF s.travel_plan = <<>> THEN
    Bind(IF StrTruthy(s.original_request) THEN s.original_request ELSE u,
         LAMBDA user_request :
           [plan |-> enhanced_travel_analysis(user_request), alias |-> FALSE,
            text |-> user_request])
  ELSE IF Utterance(u).refresh
    THEN [plan |-> s.travel_plan[1], alias |-> TRUE, text |-> None]
  ELSE Bind(update_travel_plan(s.travel_plan[1], u, llm_ok), LAMBDA upd :
         [plan |-> [upd.plan EXCEPT
                      !.destination = IF StrTruthy(@) THEN @
                                      ELSE s.travel_plan[1].destination,
                      !.origin = IF StrTruthy(@) THEN @ ELSE s.travel_plan[1].origin],
          alias |-> upd.alias, text |-> u])

\* intent override, cleanup of inherited fields and default origin.  When the
\* plan is the previous plan object, prev_plan.user_intent is the overridden
\* intent too and no intent change is seen
PlanIntent(s, u, upd) ==
  Bind(Utterance(u), LAMBDA utt :
  Bind(IF utt.override # None /\ utt.override # upd.plan.user_intent
         THEN [upd.plan EXCEPT !.user_intent = utt.override] ELSE upd.plan, LAMBDA tp2 :
  Bind(IF /\ s.travel_plan # <<>>
          /\ ~upd.alias
          /\ s.travel_plan[1].user_intent # tp2.user_intent
         THEN cleanup_inherited_fields_on_intent(
                tp2, tp2.user_intent, changed_fields(s.travel_plan[1], tp2),
                utt.mentions_date)
         ELSE tp2, LAMBDA tp3 :
    IF tp3.user_intent \in {"full_plan", "flights_only"} /\ ~StrTruthy(tp3.origin)
      THEN [tp3 EXCEPT !.origin = "Shanghai"] ELSE tp3)))

\* a date gate that, when it has to ask, keeps only destination and intent
PlanGate_dropping_fields(tp) ==
  Bind(IF tp.user_intent \in {"full_plan", "flights_only", "hotels_only"}
         THEN normalize_dates_or_ask(tp)
         ELSE [ok |-> StrTruthy(tp.destination), ask |-> "ask_destination", plan |-> tp],
       LAMBDA gate :
         IF gate.ok THEN gate
         ELSE [gate EXCEPT !.plan = [TravelPlan(tp.destination) EXCEPT
                                       !.user_intent = tp.user_intent]])

\* Node 3: the date gate
PlanGate(tp) ==
  IF tp.user_intent \in {"full_plan", "flights_only", "hotels_only"}
    THEN normalize_dates_or_ask(tp)
    ELSE [ok |-> StrTruthy(tp.destination), ask |-> "ask_destination", plan |-> tp]

\* scheduling by the rerun flag and the arguments alone
CanRun_ignoring_intent(t, tp, rerun) ==
  /\ rerun[t]
  /\ StrTruthy(tp.destination)
  /\ t = "search_flights" => StrTruthy(tp.origin) /\ tp.departure_date # NoDate
  /\ t = "search_and_compare_hotels" => tp.departure_date # NoDate /\ tp.return_date # NoDate

\* the tool is scheduled: its rerun flag, the intent and its arguments allow it
CanRun(t, tp, rerun) ==
  /\ rerun[t]
  /\ t \in IntentTools(tp.user_intent)
  /\ StrTruthy(tp.destination)
  /\ t = "search_flights" => StrTruthy(tp.origin) /\ tp.departure_date # NoDate
  /\ t = "search_and_compare_hotels" => tp.departure_date # NoDate /\ tp.return_date # NoDate

\* Node 4: the diff against the previous plan and the list of provider calls
PlanTasks(s, u, llm_ok, upd, gate) ==
  LET tp == gate.plan
      hasPrev == s.travel_plan # <<>>
      \* prev_plan and travel_plan are one object when the update returned prev
      prevD == IF ~hasPrev THEN <<>> ELSE IF upd.alias THEN <<tp>> ELSE s.travel_plan
      raised == ~hasPrev /\ ~llm_ok
  IN Bind(compute_rerun_flags(prevD, tp), LAMBDA rerun :
       [raised |-> raised, refresh |-> hasPrev /\ Utterance(u).refresh,
        ok |-> gate.ok, ask |-> gate.ask, tp |-> tp, text |-> upd.text,
        changed |-> IF hasPrev THEN changed_fields(prevD[1], tp) ELSE PlanFields,
        had_prev |-> hasPrev,
        tasks |-> IF raised \/ ~gate.ok THEN <<>>
                  ELSE SelectSeq(ToolOrder, LAMBDA t : CanRun(t, tp, rerun))])

\* Node2..Node4 up to the list of provider calls: the plan of the turn, the
\* outcome of the date gate, the diff against the previous plan and the tasks
PlanOf(s, u, llm_ok) ==
  Bind(PlanUpdate(s, u, llm_ok), LAMBDA upd :
  Bind(PlanIntent(s, u, upd), LAMBDA tp4 :
  Bind(PlanGate(tp4), LAMBDA gate :
    PlanTasks(s, u, llm_ok, upd, gate))))

\* location_utils.py location_to_airport_code: the IATA code the lookup gives
\* for a place; which airport of the city it is depends on the lookup
ResolutionOutcomes == {"primary", "secondary", "raise"}

location_to_airport_code(place, outcome) ==
  CASE place = "Tokyo" -> IF outcome = "primary" THEN "NRT" ELSE "HND"
    [] place = "Osaka" -> IF outcome = "primary" THEN "KIX" ELSE "ITM"
    [] place = "Paris" -> IF outcome = "primary" THEN "CDG" ELSE "ORY"
    [] place = "Berlin" -> IF outcome = "primary" THEN "BER" ELSE "SXF"
    [] place = "Shanghai" -> IF outcome = "primary" THEN "PVG" ELSE "SHA"
    [] OTHER -> "XXX"

\* the arguments the provider of tool t is called with
call_args(tp, t, one_way, iata) ==
  IF t = "search_flights" THEN
    [originLocationCode |-> location_to_airport_code(tp.origin, iata),
     destinationLocationCode |-> location_to_airport_code(tp.destination, iata),
     departureDate |-> tp.departure_date,
     returnDate |-> tp.return_date,
     one_way |-> one_way]
  ELSE IF t = "search_and_compare_hotels" THEN
    [city_code |-> tp.destination,
     check_in_date |-> tp.departure_date,
     check_out_date |-> tp.return_date]
  ELSE [city_name |-> tp.destination]

\* the key of a record computed from the arguments of the provider call
key_args_update_from_call_args(tp, t, one_way, iata) == call_args(tp, t, one_way, iata)

\* key_args_update[t]: the arguments the key of the record is computed from
key_args_update(tp, t, one_way, iata) ==
  IF t = "search_flights" THEN
    [originLocationCode |-> tp.origin,
     destinationLocationCode |-> tp.destination,
     departureDate |-> tp.departure_date,
     returnDate |-> tp.return_date,
     one_way |-> one_way]
  ELSE IF t = "search_and_compare_hotels" THEN
    [city_code |-> tp.destination,
     check_in_date |-> tp.departure_date,
     check_out_date |-> tp.return_date]
  ELSE [city_name |-> tp.destination]

\* an executor loop that stops at the first provider failure
ExecuteTools_stopping_at_failure(tasks, tp, one_way, orc, turn) ==
  Bind({i \in 1..Len(tasks) : orc.prov[tasks[i]] # "ok"}, LAMBDA failed :
    [i \in 1..(IF failed = {} THEN Len(tasks)
                ELSE CHOOSE k \in failed : \A j \in failed : k <= j) |->
       ToolMessage(ToolContent(tasks[i], orc.prov[tasks[i]], turn), tasks[i],
                   <<tasks[i],
                     compute_tool_key(tasks[i], tp,
                       key_args_update(tp, tasks[i], one_way, orc.iata)),
                     i - 1>>)])

\* the executor loop: one ToolMessage per task, in order; a provider that
\* raises leaves an error placeholder and the loop goes on
ExecuteTools(tasks, tp, one_way, orc, turn) ==
  [i \in 1..Len(tasks) |->
     ToolMessage(ToolContent(tasks[i], orc.prov[tasks[i]], turn), tasks[i],
                 <<tasks[i],
                   compute_tool_key(tasks[i], tp,
                     key_args_update(tp, tasks[i], one_way, orc.iata)),
                   i - 1>>)]

\* the executor and the state the node returns
PlanOutcome(s, orc, p) ==
  LET tp == p.tp
      tasks == p.tasks
      done == [s EXCEPT !.travel_plan = <<tp>>, !.form_to_display = None,
                        !.extractor = ~p.refresh, !.extractor_text = p.text,
                        !.changed = p.changed, !.had_prev = p.had_prev]
  IN IF p.raised THEN
       \* enhanced_travel_analysis raised ValueError
       [s EXCEPT !.messages = Append(@, AIMessage("please_rephrase")),
                 !.current_step = "complete", !.form_to_display = None,
                 !.extractor = TRUE, !.extractor_text = p.text]
     ELSE IF "search_flights" \in SeqRange(tasks) /\ orc.iata = "raise" THEN
       \* location_to_airport_code raised ValueError: the plan is not stored
       [s EXCEPT !.messages = Append(@, AIMessage("please_rephrase")),
                 !.current_step = "complete", !.form_to_display = None,
                 !.extractor = ~p.refresh, !.extractor_text = p.text,
                 !.resolved = "raise"]
     ELSE IF ~p.ok THEN
       [done EXCEPT !.messages = Append(@, AIMessage(p.ask)),
                    !.current_step = "complete"]
     ELSE IF Len(tasks) = 0 THEN
       IF \E i \in 1..Len(s.messages) : s.messages[i].type = "tool"
         THEN [done EXCEPT !.current_step = "synthesizing",
                           !.tools_used = IntentToolSeq(tp.user_intent)]
         ELSE [done EXCEPT !.messages = Append(@, AIMessage("no_specific_search")),
                           !.current_step = "complete"]
     ELSE [done EXCEPT
             !.messages = @ \o ExecuteTools(tasks, tp, s.one_way, orc, s.turn),
             !.current_step = "synthesizing",
             !.tools_used = IntentToolSeq(tp.user_intent),
             !.invoked = tasks,
             !.resolved = IF "search_flights" \in SeqRange(tasks) THEN orc.iata ELSE None]

PlanStage(s, u, orc) == Bind(PlanOf(s, u, orc.llm_ok), LAMBDA p : PlanOutcome(s, orc, p))

\* the node without Node 1: plan work starts whether or not the customer
\* info is there
call_model_node_without_info_gate(s, orc) ==
  Bind([s EXCEPT !.one_way = FALSE], LAMBDA s0 :
    IF Utterance(Last(s.messages).text).low_signal THEN
      [s0 EXCEPT !.messages = Append(@, AIMessage("please_repeat")),
                 !.current_step = "complete", !.form_to_display = None]
    ELSE PlanStage(s0, Last(s.messages).text, orc))

call_model_node(s, orc) ==
  Bind([s EXCEPT !.one_way = FALSE], LAMBDA s0 :
    IF Utterance(Last(s.messages).text).low_signal THEN
      [s0 EXCEPT !.messages = Append(@, AIMessage("please_repeat")),
                 !.current_step = "complete", !.form_to_display = None]
    ELSE IF ~InfoTruthy(s.customer_info) THEN
      [s0 EXCEPT !.current_step = "collecting_info",
                 !.form_to_display = "customer_info",
                 !.original_request = IF StrTruthy(@) THEN @ ELSE Last(s.messages).text]
    ELSE PlanStage(s0, Last(s.messages).text, orc))

\* ---------------------------------------------------------------------------
\* agents.py : synthesize_results_node
\* ---------------------------------------------------------------------------
\* a filter that lets every parsed item through
NonError_keeping_placeholders(content) == content

\* normal_flights / normal_hotels / normal_activities: the parsed items
\* without the error placeholders
NonError(content) == SelectSeq(content, LAMBDA o : ~o.is_error)

HasError(content) == \E i \in 1..Len(content) : content[i].is_error

\* the resolver: newest record of the tool whose stored key equals the key of
\* the current plan; failing that, the newest record of the tool when it holds
\* nothing but error placeholders
\* a scan from the oldest message on
first_in_forward_scan(S) == CHOOSE x \in S : \A y \in S : x <= y

\* for msg in reversed(messages): the first hit of the scan is the newest
first_in_reversed_scan(S) == Max(S)

\* a resolver that takes the newest record of the tool, whatever its key
ResolveRecord_newest(msgs, tp, one_way, allowed_tools, t) ==
  LET OfTool == {i \in 1..Len(msgs) : msgs[i].type = "tool" /\ msgs[i].name = t}
  IN IF t \notin allowed_tools \/ OfTool = {} THEN 0 ELSE Max(OfTool)

ResolveRecord(msgs, tp, one_way, allowed_tools, t) ==
  IF t \notin allowed_tools THEN 0
  ELSE
    Bind(IF tp # <<>>
           THEN <<compute_tool_key(t, tp[1],
                    semantic_key_kwargs_for_tool(tp[1], t, one_way))>>
           ELSE <<>>, LAMBDA current_key :
    Bind({i \in 1..Len(msgs) : msgs[i].type = "tool" /\ msgs[i].name = t}, LAMBDA OfTool :
    Bind({i \in OfTool :
            /\ extract_tool_key_from_call_id(msgs[i].tool_call_id) # <<>>
            /\ extract_tool_key_from_call_id(msgs[i].tool_call_id) = current_key},
         LAMBDA Matching :
      IF Matching # {} THEN first_in_reversed_scan(Matching)
      ELSE IF OfTool # {}
              /\ tool_content_is_all_error_placeholders(
                   msgs[first_in_reversed_scan(OfTool)].content)
        THEN first_in_reversed_scan(OfTool)
      ELSE 0)))

\* _parse_budget_to_float(customer_info.get("budget")); 0 when there is none
ensure_budget_for_packages(tp, ci) ==
  IF tp.total_budget # NoBudget /\ tp.total_budget > 0 THEN tp.total_budget
  ELSE IF ci # <<>> /\ ci[1].budget > 0 THEN ci[1].budget
  ELSE 0

\* the categories the turn may present
\* every category is allowed, whatever the turn used
allowed_tools_of_all(s) == ToolNames

allowed_tools_of(s) ==
  IF Len(s.tools_used) > 0 THEN SeqRange(s.tools_used)
  ELSE IntentTools(IF s.travel_plan # <<>> THEN s.travel_plan[1].user_intent
                   ELSE "full_plan")

\* the parsed content of the record selected for a category
SelectedContent(s, selected, t) ==
  IF selected[t] # 0 THEN s.messages[selected[t]].content ELSE <<>>

\* the budget the packages are built with; 0 when no packages are called for
PackageBudget(s, options) ==
  IF /\ s.travel_plan # <<>>
     /\ s.travel_plan[1].user_intent = "full_plan"
     /\ Len(options["search_flights"]) > 0
     /\ Len(options["search_and_compare_hotels"]) > 0
    THEN ensure_budget_for_packages(s.travel_plan[1], s.customer_info)
    ELSE 0

\* tool_results_for_prompt: the lists the reply is written from; an outage
\* reply gets the empty list for the category it reports
PromptLists(mode, options) ==
  [t \in ToolNames |->
     IF \/ mode = "flight_outage" /\ t = "search_flights"
        \/ mode = "activity_outage" /\ t = "search_activities_by_city"
        \/ mode \in {"hotel_outage", "no_hotel_inventory"} /\ t = "search_and_compare_hotels"
       THEN <<>> ELSE options[t]]

\* which reply the node writes
SynthMode(s, allowed_tools, selected, options, packages) ==
  LET err(t) == HasError(SelectedContent(s, selected, t))
      exist(t) == Len(options[t]) > 0
      F == "search_flights"
      H == "search_and_compare_hotels"
      A == "search_activities_by_city"
  IN IF (\A t \in ToolNames : selected[t] = 0) /\ allowed_tools # {} THEN
       (IF \E i \in 1..Len(s.messages) :
             s.messages[i].type = "tool" /\ s.messages[i].name \in allowed_tools
          THEN "consistency_retry" ELSE "search_unavailable")
     ELSE IF packages THEN "packages"
     ELSE IF err(F) /\ (exist(H) \/ exist(A)) THEN "flight_outage"
     ELSE IF err(A) /\ (exist(F) \/ exist(H)) THEN "activity_outage"
     ELSE IF err(H) /\ (exist(F) \/ exist(A)) THEN "hotel_outage"
     ELSE IF exist(F) /\ H \in allowed_tools /\ ~exist(H) THEN "no_hotel_inventory"
     ELSE IF exist(F) \/ exist(H) \/ exist(A) THEN "results"
     ELSE IF err(F) \/ err(A) THEN "supplier_failure"
     ELSE "no_results"

synthesize_results_node(s, orc) ==
  Bind(allowed_tools_of(s), LAMBDA allowed_tools :
  Bind([t \in ToolNames |->
          ResolveRecord(s.messages, s.travel_plan, s.one_way, allowed_tools, t)],
       LAMBDA selected :
  Bind([t \in ToolNames |-> NonError(SelectedContent(s, selected, t))], LAMBDA options :
  Bind(PackageBudget(s, options), LAMBDA budget :
  Bind(SynthMode(s, allowed_tools, selected, options, budget > 0 /\ orc.pkg_ok),
       LAMBDA mode :
    LET early == (\A t \in ToolNames : selected[t] = 0) /\ allowed_tools # {}
    IN [s EXCEPT !.messages = Append(@, AIMessage(mode)),
                 !.current_step = "complete", !.form_to_display = None,
                 \* _ensure_budget_for_packages writes the fallback budget into the plan
                 !.travel_plan = IF budget > 0 /\ ~early
                                   THEN <<[@[1] EXCEPT !.total_budget = budget]>> ELSE @,
                 !.synthesized = TRUE, !.selected = selected,
                 !.presented = IF early THEN [t \in ToolNames |-> <<>>]
                               ELSE PromptLists(mode, options),
                 !.mode = mode])))))

\* ---------------------------------------------------------------------------
\* graph.py : one graph.ainvoke on the channels of a thread
\* ---------------------------------------------------------------------------
\* the gate in front of the plan work: a missing customer form suspends the
\* run (interrupt); resuming stores the submitted form as customer_info
ensure_customer_info_node(s) ==
  LET u == Last(s.messages).text
  IN IF Utterance(u).low_signal THEN "complete"
     ELSE IF ~InfoTruthy(s.customer_info) THEN "collecting_info"
     ELSE "continue"

RunNodes(s, orc) ==
  Bind(call_model_node(s, orc), LAMBDA afterModel :
    IF ensure_customer_info_node(s) = "collecting_info"
      THEN [afterModel EXCEPT !.interrupt = TRUE]
    ELSE IF afterModel.current_step = "synthesizing"
      THEN synthesize_results_node(afterModel, orc)
    ELSE afterModel)

ResetObservations(s) ==
  [s EXCEPT !.invoked = <<>>, !.extractor = FALSE, !.extractor_text = None,
            !.resolved = None, !.synthesized = FALSE,
            !.changed = {}, !.had_prev = FALSE, !.mode = "",
            !.turn = @ + 1]

\* the state a run starts from
ChatInput(s, u, is_continuation) ==
  [ResetObservations(s) EXCEPT !.messages = Append(@, HumanMessage(u)),
                               !.is_continuation = is_continuation,
                               !.interrupt = FALSE]

ResumeInput(s, info) ==
  [ResetObservations(s) EXCEPT !.customer_info = <<info>>, !.interrupt = FALSE]

\* what the collaborators can do in a run that starts from s
TasksAt(s, llm_ok) ==
  IF ensure_customer_info_node(s) # "continue" THEN <<>>
  ELSE PlanOf(s, Last(s.messages).text, llm_ok).tasks

\* the run consults the plan extractor
AsksExtractor(s) ==
  /\ ensure_customer_info_node(s) = "continue"
  /\ ~(s.travel_plan # <<>> /\ Utterance(Last(s.messages).text).refresh)

\* the run consults the package generator
AsksPackages(s, orc) == RunNodes(s, [orc EXCEPT !.pkg_ok = TRUE]).mode = "packages"

\* every behaviour of the collaborators in a run that starts from s
AllOracles(s) ==
  UNION {[llm_ok : {l}, pkg_ok : BOOLEAN,
          iata : IF "search_flights" \in SeqRange(TasksAt(s, l))
                   THEN ResolutionOutcomes ELSE {"primary"},
          prov : [SeqRange(TasksAt(s, l)) -> ProviderOutcomes]] :
         l \in (IF AsksExtractor(s) THEN BOOLEAN ELSE {TRUE})}

\* one oracle per distinguishable behaviour of the collaborators
Oracles(s) == {orc \in AllOracles(s) : orc.pkg_ok \/ AsksPackages(s, orc)}

\* ---------------------------------------------------------------------------
\* Inputs
\* ---------------------------------------------------------------------------
Utterances ==
  {"trip", "tripd", "tripbad", "dates", "budget", "osaka", "berlin", "check", "another",
   "acts", "hotels", "hotelsd", "flights", "full", "ok"}

CustomerForms == {[empty |-> FALSE, budget |-> 2000], [empty |-> TRUE, budget |-> 0]}

VARIABLES
  conv,                \* Spec, SpecSynth: the channels of the one conversation
  jobs,                \* main.py jobs: task_id -> job record
  waiting_for_resume,  \* main.py waiting_for_resume: thread_id -> task_id (0: absent)
  checkpoints,         \* SQLite checkpoints: thread_id -> Optional[channels]
  tasks,               \* background tasks not yet finished: task_id -> coroutine
  next_id,             \* the next uuid4
  restarts,            \* process restarts so far
  resp,                \* status code of the latest HTTP response (0: none yet)
  ghost                \* history: suspensions and who consumed them

serverVars == <<jobs, waiting_for_resume, checkpoints, tasks, next_id, restarts, resp, ghost>>

vars == <<conv, serverVars>>

\* ===========================================================================
\* Spec: one conversation, its turns run one after the other
\* ===========================================================================
Threads == {"thread_1"}

\* no request answered yet
NoResp == 0

\* what is remembered of the latest suspension of a thread
NoSnapshot ==
  [valid |-> FALSE, cp |-> <<>>, restarted |-> FALSE, others |-> FALSE, resumes |-> 0]

ServerInit ==
  /\ jobs = <<>>
  /\ waiting_for_resume = [t \in Threads |-> 0]
  /\ checkpoints = [t \in Threads |-> <<>>]
  /\ tasks = <<>>
  /\ next_id = 1
  /\ restarts = 0
  /\ resp = NoResp
  /\ ghost = [suspended |-> [t \in Threads |-> NoSnapshot],
              writer |-> [t \in Threads |-> 0],
              consumed |-> {}, twice |-> {}, survived |-> FALSE,
              store_failed |-> {}]

Init == conv = EmptyState /\ ServerInit

\* POST /chat with is_continuation = true, run to the end of the turn
ChatContinue(u) ==
  /\ conv.turn < MaxTurns
  /\ ~conv.interrupt
  /\ \E start \in {ChatInput(conv, u, TRUE)} :
       \E orc \in Oracles(start) : conv' = RunNodes(start, orc)
  /\ UNCHANGED serverVars

\* POST /chat with is_continuation = false: the checkpoint is deleted first
ChatFresh(u) ==
  /\ conv.turn < MaxTurns
  /\ ~conv.interrupt
  /\ \E start \in {ChatInput([EmptyState EXCEPT !.turn = conv.turn], u, FALSE)} :
       \E orc \in Oracles(start) : conv' = RunNodes(start, orc)
  /\ UNCHANGED serverVars

\* POST /chat/resume with the customer form, run to the end of the turn
Resume(info) ==
  /\ conv.turn < MaxTurns
  /\ conv.interrupt
  /\ \E start \in {ResumeInput(conv, info)} :
       \E orc \in Oracles(start) : conv' = RunNodes(start, orc)
  /\ UNCHANGED serverVars

Next ==
  \/ \E u \in Utterances : ChatContinue(u)
  \/ \E u \in Utterances : ChatFresh(u)
  \/ \E info \in CustomerForms : Resume(info)

Spec == Init /\ [][Next]_vars

\* ===========================================================================
\* SpecPlan: the same conversation on the requests that shape the plan, among
\* them one that names no destination and one that changes only the duration
\* ===========================================================================
PlanUtterances == {"anywhere", "stay7", "tripd", "dates", "osaka", "acts", "check"}

NextPlan ==
  \/ \E u \in PlanUtterances : ChatContinue(u)
  \/ \E u \in PlanUtterances : ChatFresh(u)
  \/ \E info \in CustomerForms : Resume(info)

SpecPlan == Init /\ [][NextPlan]_vars

\* ===========================================================================
\* Properties of one conversation (checked under Spec)
\* ===========================================================================
\* a record of tool t in the history bears the fingerprint of the current plan
HasCurrentRecord(s, t) ==
  /\ s.travel_plan # <<>>
  /\ \E i \in 1..Len(s.messages) :
       /\ s.messages[i].type = "tool"
       /\ s.messages[i].name = t
       /\ extract_tool_key_from_call_id(s.messages[i].tool_call_id)
            = <<compute_tool_key(t, s.travel_plan[1],
                  semantic_key_kwargs_for_tool(s.travel_plan[1], t, s.one_way))>>

\* C1: at the end of every turn that reached synthesis, each category the
\* intent of the current plan requires either has a record in the history that
\* bears the fingerprint of the current plan or was executed during that turn.
C1_EveryRequiredCategoryCovered ==
  (conv.synthesized /\ conv.travel_plan # <<>>) =>
    \A t \in IntentTools(conv.travel_plan[1].user_intent) :
      HasCurrentRecord(conv, t) \/ t \in SeqRange(conv.invoked)

LastHuman(msgs) ==
  msgs[Max({i \in 1..Len(msgs) : msgs[i].type = "human"})].text

\* this step is a turn of the conversation
IsTurn == conv'.turn = conv.turn + 1

\* the channels the turn of this step started from: a /chat request with
\* is_continuation = false starts from the empty channels
TurnBefore ==
  IF ~conv.interrupt /\ ~conv'.is_continuation
    THEN [EmptyState EXCEPT !.turn = conv.turn] ELSE conv

\* C14 (as stated): after any turn in which the customer info is absent, the
\* plan extractor was not called, no provider was invoked, and the turn ended
\* with current_step = collecting_info and the customer_info form requested.
C14_NoInfoEndsCollecting ==
  (conv.turn > 0 /\ ~InfoTruthy(conv.customer_info)) =>
    /\ ~conv.extractor
    /\ conv.invoked = <<>>
    /\ conv.current_step = "collecting_info"
    /\ conv.form_to_display = "customer_info"

\* C14 (amended): after any turn in which the customer info is absent, the
\* plan extractor was not called and no provider was invoked; a low-signal
\* message is answered with a request to repeat and current_step = complete,
\* any other message suspends the turn with current_step = collecting_info
\* and the customer_info form requested.
C14_NoInfoNoPlanWork ==
  (conv.turn > 0 /\ ~InfoTruthy(conv.customer_info)) =>
    /\ ~conv.extractor
    /\ conv.invoked = <<>>
    /\ IF Utterance(LastHuman(conv.messages)).low_signal
         THEN /\ conv.current_step = "complete"
              /\ conv.form_to_display = None
              /\ Last(conv.messages) = AIMessage("please_repeat")
         ELSE /\ conv.current_step = "collecting_info"
              /\ conv.form_to_display = "customer_info"
              /\ conv.interrupt

C14_Witness ==
  /\ conv.turn > 1
  /\ conv.customer_info # <<>>
  /\ ~InfoTruthy(conv.customer_info)
  /\ conv.current_step = "collecting_info"
  /\ conv.form_to_display = "customer_info"

\* C15: the text of the message that triggered the collection of the customer
\* info is stored as original_request; once stored it is never overwritten;
\* and it is the text handed to the plan extractor for the first plan.
C15_OriginalRequestPreserved ==
  [][IsTurn =>
       /\ (conv'.current_step = "collecting_info"
           /\ ~StrTruthy(TurnBefore.original_request))
            => conv'.original_request = LastHuman(conv'.messages)
       /\ StrTruthy(TurnBefore.original_request)
            => conv'.original_request = TurnBefore.original_request
       /\ (conv'.extractor /\ TurnBefore.travel_plan = <<>>)
            => /\ StrTruthy(TurnBefore.original_request)
               /\ conv'.extractor_text = TurnBefore.original_request]_vars

C15_Witness ==
  /\ conv.extractor
  /\ ~conv.had_prev
  /\ conv.travel_plan # <<>>
  /\ conv.extractor_text = conv.original_request
  /\ LastHuman(conv.messages) # conv.original_request

\* the plan fields a message itself sets: its patch and, when the text names
\* an intent, user_intent
MessageSets(u) ==
  DOMAIN Utterance(u).patch
    \cup (IF Utterance(u).override # None \/ Utterance(u).inferred # None
            THEN {"user_intent"} ELSE {})

\* the turn of this step stored its plan, whose intent needs dates and which
\* has no resolvable departure/return pair
DatesUnresolved ==
  /\ IsTurn
  /\ InfoTruthy(conv'.customer_info)
  /\ ~Utterance(LastHuman(conv'.messages)).low_signal
  /\ conv'.travel_plan # <<>>
  /\ conv'.had_prev \/ conv'.changed # {}
  /\ conv'.travel_plan[1].user_intent \in {"full_plan", "flights_only", "hotels_only"}
  /\ ~normalize_dates_or_ask(conv'.travel_plan[1]).ok

\* the turn of this step ended with the question of the date gate
AsksForDates ==
  /\ conv'.current_step = "complete"
  /\ Last(conv'.messages) = AIMessage(normalize_dates_or_ask(conv'.travel_plan[1]).ask)
  /\ conv'.invoked = <<>>
  /\ ~conv'.synthesized

\* the fields of the previous plan that had a value and are not set by the
\* message of this turn
KeptCandidates ==
  IF TurnBefore.travel_plan = <<>> THEN {}
  ELSE {f \in PlanFields :
          /\ TurnBefore.travel_plan[1][f] # NoneOf(f)
          /\ f \notin MessageSets(LastHuman(conv'.messages))}

\* the message restates the trip: update_travel_plan rebuilds the plan
RestatesTrip(u) ==
  /\ Cardinality(DOMAIN Utterance(u).patch \cap BIG_FIELDS) >= 4
  /\ ("destination" \in DOMAIN Utterance(u).patch \/ "origin" \in DOMAIN Utterance(u).patch)

\* C16 (as stated): a turn that reaches the date gate without a resolvable
\* date pair ends with the gate's question, invokes no provider, and every
\* plan field that had a value before the turn and is not set by the message
\* keeps that value.
C16_DateQuestionKeepsFields ==
  [][DatesUnresolved =>
       /\ AsksForDates
       /\ \A f \in KeptCandidates :
            conv'.travel_plan[1][f] = TurnBefore.travel_plan[1][f]]_vars

\* C16 (amended): such a turn ends with the gate's question and invokes no
\* provider; a field that had a value keeps it unless the message sets it,
\* the turn changes the intent and the cleanup for the new intent lists the
\* field, or the message restates the trip and the plan is rebuilt from it.
C16_DateQuestionKeepsFieldsButCleanup ==
  [][DatesUnresolved =>
       /\ AsksForDates
       /\ \A f \in KeptCandidates :
            \/ conv'.travel_plan[1][f] = TurnBefore.travel_plan[1][f]
            \/ /\ conv'.travel_plan[1].user_intent # TurnBefore.travel_plan[1].user_intent
               /\ f \in ClearedOnIntent(conv'.travel_plan[1].user_intent,
                                        Utterance(LastHuman(conv'.messages)).mentions_date)
               /\ conv'.travel_plan[1][f] = NoneOf(f)
            \/ /\ RestatesTrip(LastHuman(conv'.messages))
               /\ conv'.travel_plan[1][f] = TravelPlan("")[f]]_vars

\* a date question asked about a plan that existed before the turn and kept
\* a field the message did not set
C16_Witness ==
  /\ conv.had_prev
  /\ conv.travel_plan # <<>>
  /\ conv.current_step = "complete"
  /\ conv.invoked = <<>>
  /\ Last(conv.messages) = AIMessage("ask_travel_dates")
  /\ conv.travel_plan[1].destination = "Osaka"
  /\ conv.travel_plan[1].origin = "Paris"

\* the dependency set of a category
DepsOf(t) ==
  IF t = "search_flights" THEN flights_deps
  ELSE IF t = "search_and_compare_hotels" THEN hotels_deps
  ELSE activities_deps

\* the turn before this step reached synthesis with a record of the current
\* fingerprint for every category its intent requires
PrevResolved ==
  /\ conv.synthesized
  /\ conv.travel_plan # <<>>
  /\ \A t \in IntentTools(conv.travel_plan[1].user_intent) : HasCurrentRecord(conv, t)

\* the turn of this step is a continuation turn that reached the executor
ContinuationExecuted ==
  /\ IsTurn
  /\ ~conv.interrupt
  /\ conv'.is_continuation
  /\ conv'.had_prev
  /\ conv'.synthesized \/ Last(conv'.messages) = AIMessage("no_specific_search")

\* the plan fields whose value the turn of this step changed
TurnChanged == changed_fields(conv.travel_plan[1], conv'.travel_plan[1])

\* C17: in a continuation turn after a turn that resolved every required
\* category, the categories executed are exactly those applicable to the
\* intent that have a changed dependency field; with no changed field nothing
\* is invoked and the same offers are presented; with only origin changed
\* only flights is invoked and the hotels and activities records are reused.
C17_ExecutesExactlyChangedCategories ==
  [][(PrevResolved /\ ContinuationExecuted) =>
       /\ SeqRange(conv'.invoked)
            = {t \in IntentTools(conv'.travel_plan[1].user_intent) :
                 (TurnChanged \cap DepsOf(t)) # {}}
       /\ TurnChanged = {} =>
            /\ conv'.invoked = <<>>
            /\ \A t \in ToolNames : conv'.presented[t] = conv.presented[t]
       /\ TurnChanged = {"origin"} =>
            /\ SeqRange(conv'.invoked) \subseteq {"search_flights"}
            /\ \A t \in {"search_and_compare_hotels", "search_activities_by_city"} :
                 conv'.selected[t] = conv.selected[t]]_vars

\* C18: no turn invokes a category that is not applicable to the intent of
\* the turn's plan, whatever the rerun flags are.
C18_OnlyApplicableCategoriesInvoked ==
  (conv.invoked # <<>>) =>
    /\ conv.travel_plan # <<>>
    /\ SeqRange(conv.invoked) \subseteq IntentTools(conv.travel_plan[1].user_intent)

\* a first plan (every rerun flag is true) with intent hotels_only: only the
\* hotels provider was invoked
C18_Witness ==
  /\ conv.travel_plan # <<>>
  /\ conv.travel_plan[1].user_intent = "hotels_only"
  /\ ~conv.had_prev
  /\ conv.changed = PlanFields
  /\ conv.invoked = <<"search_and_compare_hotels">>

\* the state the turn of this step started from
TurnStart ==
  IF conv.interrupt THEN ResumeInput(conv, conv'.customer_info[1])
  ELSE ChatInput(TurnBefore, LastHuman(conv'.messages), conv'.is_continuation)

\* the fingerprints on the records a turn appended: category and stored key
Fingerprints(before, after) ==
  {<<after.messages[i].name, extract_tool_key_from_call_id(after.messages[i].tool_call_id)>> :
     i \in {j \in (Len(before.messages) + 1)..Len(after.messages) :
              after.messages[j].type = "tool"}}

\* the states the executor can return in the turn of this step, for every
\* behaviour of the plan extractor and every outcome of the airport lookup
OtherRuns(start) ==
  {call_model_node(start, orc) :
     orc \in {o \in AllOracles(start) :
                o.pkg_ok /\ \A t \in DOMAIN o.prov : o.prov[t] = "ok"}}

\* C20: the fingerprints stored in a turn depend on the plan only: any other
\* run of the same turn that ends with the same plan and executes, whatever
\* the airport lookup returned in it, stores the same fingerprint for every
\* category.
C20_FingerprintIgnoresResolution ==
  [][(IsTurn /\ conv'.invoked # <<>>) =>
       \A start \in {TurnStart} :
         \A other \in OtherRuns(start) :
           (other.invoked # <<>> /\ other.travel_plan = conv'.travel_plan)
             => Fingerprints(start, other) = Fingerprints(start, conv')]_vars

\* a turn that executed flights after the lookup returned the secondary
\* airport, and stored the fingerprint of the place names of the plan
C20_Witness ==
  /\ conv.resolved = "secondary"
  /\ "search_flights" \in SeqRange(conv.invoked)
  /\ \E i \in 1..Len(conv.messages) :
       /\ conv.messages[i].type = "tool"
       /\ conv.messages[i].name = "search_flights"
       /\ conv.messages[i].tool_call_id[2][1] = conv.travel_plan[1].origin
       /\ conv.messages[i].tool_call_id[2][2] = conv.travel_plan[1].destination

\* the positions of the records the turn of this step appended
NewRecords ==
  {i \in (Len(TurnStart.messages) + 1)..Len(conv'.messages) : conv'.messages[i].type = "tool"}

\* the turn of this step executed several categories and the provider of at
\* least one of them failed
ProviderFailedInTurn ==
  /\ IsTurn
  /\ Len(conv'.invoked) > 1
  /\ \E i \in NewRecords : tool_content_is_all_error_placeholders(conv'.messages[i].content)

ExtractionFailureRuns(start) ==
  {RunNodes(start, orc) : orc \in {o \in AllOracles(start) : ~o.llm_ok}}

\* the result records of a state
RecordsOf(s) == SelectSeq(s.messages, LAMBDA m : m.type = "tool")

\* the replies that ask the user to say more: repeat, rephrase, give dates
ClarifyingReplies ==
  {AIMessage("please_repeat"), AIMessage("please_rephrase"), AIMessage("ask_travel_dates")}

\* this step is a turn on low-signal text, or a turn in which the plan
\* extractor was called and failed
LowSignalOrFailedExtraction ==
  /\ IsTurn
  /\ \/ Utterance(LastHuman(conv'.messages)).low_signal
     \/ /\ conv'.extractor
        /\ \E start \in {TurnStart} : conv' \in ExtractionFailureRuns(start)

\* C30: a turn whose text is low-signal, or whose plan extraction fails, ends
\* with current_step = complete and a clarifying or rephrase reply,
\* invokes no provider, and leaves the stored plan and the records unchanged.
C30_UnusableTextEndsLocally ==
  [][LowSignalOrFailedExtraction =>
       /\ conv'.current_step = "complete"
       /\ Last(conv'.messages) \in ClarifyingReplies
       /\ conv'.invoked = <<>>
       /\ conv'.travel_plan = TurnBefore.travel_plan
       /\ RecordsOf(conv') = RecordsOf(TurnBefore)]_vars

\* the same for low-signal text and for a failed extraction of the first plan
C30_UnusableTextEndsLocallyWithoutPlan ==
  [][(LowSignalOrFailedExtraction
      /\ (Utterance(LastHuman(conv'.messages)).low_signal \/ TurnBefore.travel_plan = <<>>)) =>
       /\ conv'.current_step = "complete"
       /\ Last(conv'.messages) \in ClarifyingReplies
       /\ conv'.invoked = <<>>
       /\ conv'.travel_plan = TurnBefore.travel_plan
       /\ RecordsOf(conv') = RecordsOf(TurnBefore)]_vars

\* C31: after every turn, a stored plan has a non-empty destination.
C31_StoredPlanHasDestination ==
  conv.travel_plan # <<>> => StrTruthy(conv.travel_plan[1].destination)

\* the same for every turn that starts from a plan with a destination
C31_DestinationNeverCleared ==
  [][(IsTurn /\ conv.travel_plan # <<>> /\ conv'.travel_plan # <<>>
      /\ conv'.is_continuation
      /\ StrTruthy(conv.travel_plan[1].destination))
       => StrTruthy(conv'.travel_plan[1].destination)]_vars

\* C39: whenever the date gate of a turn succeeds (the turn goes on to
\* execution and synthesis), the plan stored by the turn has
\* return_date - departure_date = duration_days.
C39_DurationMatchesDates ==
  [][(IsTurn /\ conv'.travel_plan # <<>>
      /\ conv'.synthesized
      /\ conv'.travel_plan[1].user_intent # "activities_only")
       => conv'.travel_plan[1].return_date - conv'.travel_plan[1].departure_date
            = conv'.travel_plan[1].duration_days]_vars


\* ===========================================================================
\* SpecSynth: synthesize_results_node applied to bounded histories of records
\* ===========================================================================
MaxRecords == 2

Destinations == {"Tokyo", "Osaka"}

\* a plan that passed the date gate
DatedPlan(d, intent) ==
  [TravelPlan(d) EXCEPT !.origin = "Paris", !.departure_date = 10, !.return_date = 14,
                        !.duration_days = 4, !.user_intent = intent]

\* search_and_compare_hotels gathers two sources: only its payload can mix
\* offers and an error item
RecordSpecs ==
  {r \in [tool : ToolNames, dest : Destinations,
          outcome : {"ok", "empty", "raise", "partial"}] :
     r.outcome = "partial" => r.tool = "search_and_compare_hotels"}

\* the ToolMessage the executor appended for r.tool under the plan for r.dest
RecordOf(r, i) ==
  LET tp == DatedPlan(r.dest, "full_plan")
  IN ToolMessage(ToolContent(r.tool, r.outcome, i), r.tool,
                 <<r.tool,
                   compute_tool_key(r.tool, tp, semantic_key_kwargs_for_tool(tp, r.tool, FALSE)),
                   0>>)

Histories == UNION {[1..n -> RecordSpecs] : n \in 1..MaxRecords}

\* the state call_model_node hands to synthesize_results_node; tools_used is
\* the list of the intent, or empty as for a caller that leaves it out
SynthInput(h, d, intent, tools_used) ==
  [EmptyState EXCEPT
     !.messages = <<HumanMessage("trip")>> \o [i \in 1..Len(h) |-> RecordOf(h[i], i)],
     !.travel_plan = <<DatedPlan(d, intent)>>,
     !.customer_info = <<[empty |-> FALSE, budget |-> 2000]>>,
     !.original_request = "trip",
     !.current_step = "synthesizing",
     !.tools_used = tools_used,
     !.is_continuation = TRUE,
     !.had_prev = TRUE,
     !.turn = 1]

InitSynth ==
  /\ conv \in {SynthInput(h, d, intent, IF named THEN IntentToolSeq(intent) ELSE <<>>) :
                 h \in Histories, d \in Destinations, intent \in Intents, named \in BOOLEAN}
  /\ ServerInit

Synthesize ==
  /\ conv.current_step = "synthesizing"
  /\ \E pkg \in BOOLEAN :
       conv' = synthesize_results_node(conv, [llm_ok |-> TRUE, pkg_ok |-> pkg,
                                              iata |-> "primary", prov |-> <<>>])
  /\ UNCHANGED serverVars

NextSynth == Synthesize

SpecSynth == InitSynth /\ [][NextSynth]_vars

\* ---------------------------------------------------------------------------
\* Properties of the resolver (checked under SpecSynth)
\* ---------------------------------------------------------------------------
\* the destination part of the key a record was stored under
RecordDestination(m) ==
  IF m.name = "search_flights" THEN m.tool_call_id[2][2] ELSE m.tool_call_id[2][1]

ToolRecords(s, t) ==
  {i \in 1..Len(s.messages) : s.messages[i].type = "tool" /\ s.messages[i].name = t}

CurrentKey(s, t) ==
  compute_tool_key(t, s.travel_plan[1],
                   semantic_key_kwargs_for_tool(s.travel_plan[1], t, s.one_way))

MatchingRecords(s, t) ==
  {i \in ToolRecords(s, t) : s.messages[i].tool_call_id[2] = CurrentKey(s, t)}

\* C3 as stated: the resolver never selects a record, real or error
\* placeholder, that was fingerprinted under a destination other than the
\* destination of the current plan.
C3_NoOtherDestinationSelected ==
  conv.synthesized =>
    \A t \in ToolNames :
      conv.selected[t] # 0 =>
        RecordDestination(conv.messages[conv.selected[t]]) = conv.travel_plan[1].destination

\* C3 amended: a record fingerprinted under another destination is selected
\* only when no record of its category matches the current fingerprint and it
\* is the newest record of the category and holds only error placeholders;
\* a record with real offers from another destination is never selected.
C3_OtherDestinationOnlyAsErrorFallback ==
  conv.synthesized =>
    \A t \in ToolNames :
      (/\ conv.selected[t] # 0
       /\ RecordDestination(conv.messages[conv.selected[t]]) # conv.travel_plan[1].destination)
      => /\ MatchingRecords(conv, t) = {}
         /\ conv.selected[t] = Max(ToolRecords(conv, t))
         /\ tool_content_is_all_error_placeholders(conv.messages[conv.selected[t]].content)
         /\ conv.presented[t] = <<>>

C3_Witness ==
  /\ conv.synthesized
  /\ \E i \in 1..Len(conv.messages) :
       /\ conv.messages[i].type = "tool"
       /\ RecordDestination(conv.messages[i]) # conv.travel_plan[1].destination
       /\ NonError(conv.messages[i].content) # <<>>
       /\ conv.selected[conv.messages[i].name] \notin {0, i}

\* C4: for each category applicable to the turn the resolver selects the
\* newest record whose stored fingerprint equals the fingerprint of the
\* current plan, even when a newer record of the category has another one.
C4_NewestMatchingRecordSelected ==
  conv.synthesized =>
    \A t \in SeqRange(conv.tools_used) :
      MatchingRecords(conv, t) # {} => conv.selected[t] = Max(MatchingRecords(conv, t))

C4_Witness ==
  /\ conv.synthesized
  /\ \E t \in SeqRange(conv.tools_used) :
       /\ conv.selected[t] # 0
       /\ conv.selected[t] \in MatchingRecords(conv, t)
       /\ \E j \in ToolRecords(conv, t) :
            j > conv.selected[t] /\ j \notin MatchingRecords(conv, t)

\* the number of real offers in the record selected for a category
RealOffers(s, t) ==
  IF s.selected[t] = 0 THEN 0
  ELSE Cardinality({i \in 1..Len(s.messages[s.selected[t]].content) :
                      ~s.messages[s.selected[t]].content[i].is_error})

\* the synthesis went past the resolver with some record selected
Resolved(s) == s.synthesized /\ \E t \in ToolNames : s.selected[t] # 0

\* C24: no item with is_error = true is in a list that synthesis presents
\* or hands to the package builder, and a category counts as empty exactly
\* when its selected record holds no real offer: the replies for "nothing
\* found" are chosen exactly when no category has a real offer, the hotel
\* inventory reply only without a real hotel offer, and packages are built
\* only from real flight and hotel offers.
C24_PlaceholdersNeverPresented ==
  Resolved(conv) =>
    /\ \A t \in ToolNames :
         /\ \A i \in 1..Len(conv.presented[t]) : ~conv.presented[t][i].is_error
         /\ Len(conv.presented[t]) \in {0, RealOffers(conv, t)}
    /\ (\A t \in ToolNames : RealOffers(conv, t) = 0)
         <=> conv.mode \in {"supplier_failure", "no_results"}
    /\ conv.mode = "no_hotel_inventory" => RealOffers(conv, "search_and_compare_hotels") = 0
    /\ conv.mode = "packages" =>
         /\ Len(conv.presented["search_flights"]) = RealOffers(conv, "search_flights")
         /\ Len(conv.presented["search_and_compare_hotels"])
              = RealOffers(conv, "search_and_compare_hotels")
         /\ RealOffers(conv, "search_flights") > 0
         /\ RealOffers(conv, "search_and_compare_hotels") > 0

\* a hotels record with an error item and a real offer: only the offer is
\* presented
C24_Witness ==
  /\ conv.synthesized
  /\ conv.selected["search_and_compare_hotels"] # 0
  /\ HasError(conv.messages[conv.selected["search_and_compare_hotels"]].content)
  /\ Len(conv.presented["search_and_compare_hotels"]) = 1
  /\ ~conv.presented["search_and_compare_hotels"][1].is_error

\* the categories the intent of the current plan requires
Required(s) == IntentTools(s.travel_plan[1].user_intent)

\* the record selected for t holds nothing but error placeholders
AllError(s, t) ==
  /\ s.selected[t] # 0
  /\ tool_content_is_all_error_placeholders(s.messages[s.selected[t]].content)

\* the outage reply of a category
OutageMode(t) ==
  IF t = "search_flights" THEN "flight_outage"
  ELSE IF t = "search_and_compare_hotels" THEN "hotel_outage"
  ELSE "activity_outage"

\* C25: when exactly one of several required categories resolves to an
\* all-error record and every other required category has a real offer, the
\* reply is the outage reply of that category, with the empty list for it and
\* the real offers of the others.
C25_SingleOutageReported ==
  conv.synthesized =>
    \A t \in Required(conv) :
      (/\ Required(conv) # {t}
       /\ AllError(conv, t)
       /\ \A o \in Required(conv) \ {t} : RealOffers(conv, o) > 0)
      => /\ conv.mode = OutageMode(t)
         /\ conv.presented[t] = <<>>
         /\ \A o \in Required(conv) \ {t} :
              Len(conv.presented[o]) = RealOffers(conv, o)

\* C28: the package reply is chosen only when every category the intent
\* requires has a real offer and a positive budget is available from the plan
\* or from the customer form.
C28_PackagesNeedAllCategories ==
  (conv.synthesized /\ conv.mode = "packages") =>
    /\ \A t \in Required(conv) : RealOffers(conv, t) > 0
    /\ \/ conv.travel_plan[1].total_budget > 0
       \/ conv.customer_info # <<>> /\ conv.customer_info[1].budget > 0

\* C26: when every category the intent requires resolves to an all-error
\* record, or no record resolves for any required category, the reply is an
\* outage explanation and never the reply that no options were found.
C26_TotalOutageIsNotEmptyInventory ==
  (/\ conv.synthesized
   /\ \/ \A t \in Required(conv) : AllError(conv, t)
      \/ \A t \in Required(conv) : conv.selected[t] = 0)
  => conv.mode \in {"supplier_failure", "search_unavailable", "consistency_retry"}

\* C27: when a required category has no record with the current fingerprint
\* and no all-error record to degrade to, the reply is the request to retry
\* and not a reply that treats the category as searched without result.
C27_UnresolvedCategoryAsksRetry ==
  (/\ conv.synthesized
   /\ \E i \in 1..Len(conv.messages) :
        conv.messages[i].type = "tool" /\ conv.messages[i].name \in Required(conv)
   /\ \E t \in Required(conv) : conv.selected[t] = 0)
  => conv.mode = "consistency_retry"

\* C33: synthesis considers only the records of the categories applicable to
\* the turn (tools_used, or the categories of the intent when tools_used is
\* empty): no record of another category is selected and none of its offers
\* is in the data passed to the reply, whatever its fingerprint.
C33_OnlyApplicableCategoriesSynthesized ==
  conv.synthesized =>
    \A t \in ToolNames :
      t \notin (IF conv.tools_used # <<>> THEN SeqRange(conv.tools_used)
                ELSE IntentTools(conv.travel_plan[1].user_intent))
        => conv.selected[t] = 0 /\ conv.presented[t] = <<>>

\* a record of a category that is not applicable holds offers under the
\* fingerprint of the current plan, and the reply presents other offers
C33_Witness ==
  /\ conv.synthesized
  /\ conv.tools_used = <<>>
  /\ \E t \in ToolNames \ IntentTools(conv.travel_plan[1].user_intent) :
       \E i \in MatchingRecords(conv, t) : NonError(conv.messages[i].content) # <<>>
  /\ \E t \in IntentTools(conv.travel_plan[1].user_intent) : conv.presented[t] # <<>>

\* C35: every record the executor appends in a turn carries the fingerprint
\* synthesis computes for its category from the plan and the one_way policy
\* of the same turn, and is the record the resolver selects in that turn.
C35_ExecutedRecordMatchesInTurn ==
  [][(IsTurn /\ conv'.synthesized) =>
       \A i \in NewRecords :
         /\ conv'.messages[i].tool_call_id[2] = CurrentKey(conv', conv'.messages[i].name)
         /\ conv'.selected[conv'.messages[i].name] = i]_vars

\* a turn executed a category after the airport lookup returned the secondary
\* code, an older record of the category bears another fingerprint, and the
\* record of the turn is the one selected
C35_Witness ==
  /\ conv.synthesized
  /\ conv.resolved = "secondary"
  /\ \E t \in SeqRange(conv.invoked) :
       /\ conv.selected[t] # 0
       /\ conv.messages[conv.selected[t]].tool_call_id[2] = CurrentKey(conv, t)
       /\ \E j \in ToolRecords(conv, t) :
            /\ j < conv.selected[t]
            /\ conv.messages[j].tool_call_id[2] # CurrentKey(conv, t)

\* ===========================================================================
\* SpecRerun: _compute_rerun_flags applied to pairs of plans that differ in a
\* bounded number of fields
\* ===========================================================================
MaxDiff == 2

\* for each plan field a value other than the one of DatedPlan("Tokyo", "full_plan")
OtherValue(f) ==
  CASE f = "origin" -> "Berlin"
    [] f = "destination" -> "Osaka"
    [] f = "departure_date" -> 11
    [] f = "return_date" -> 15
    [] f = "duration_days" -> 5
    [] f = "adults" -> 2
    [] f = "travel_class" -> "BUSINESS"
    [] f = "departure_time_pref" -> "morning"
    [] f = "arrival_time_pref" -> "evening"
    [] f = "total_budget" -> 3000
    [] f = "user_intent" -> "hotels_only"

\* the value field f takes in place of base[f]: another value, or unset
Variant(f, kind) == IF kind = "other" THEN OtherValue(f) ELSE NoneOf(f)

\* the plans that differ from base in exactly the fields of D
PlansDiffering(base, D) ==
  {[f \in PlanFields |-> IF f \in D THEN Variant(f, kind[f]) ELSE base[f]] :
     kind \in {k \in [D -> {"other", "unset"}] :
                 \A f \in D : Variant(f, k[f]) # base[f]}}

DiffSets == {D \in SUBSET PlanFields : Cardinality(D) <= MaxDiff}

\* the arguments of a call: prev is an Optional[TravelPlan]
RerunInputs ==
  LET base == DatedPlan("Tokyo", "full_plan")
      others == UNION {PlansDiffering(base, D) : D \in DiffSets}
  IN {[prev |-> <<>>, new |-> base, flags |-> <<>>]}
       \cup {[prev |-> <<o>>, new |-> base, flags |-> <<>>] : o \in others}
       \cup {[prev |-> <<base>>, new |-> o, flags |-> <<>>] : o \in others}

InitRerun == conv \in RerunInputs /\ ServerInit

ComputeRerunFlags ==
  /\ conv.flags = <<>>
  /\ conv' = [conv EXCEPT !.flags = <<compute_rerun_flags(conv.prev, conv.new)>>]
  /\ UNCHANGED serverVars

NextRerun == ComputeRerunFlags

SpecRerun == InitRerun /\ [][NextRerun]_vars

PlanKey(tp, t, one_way) ==
  compute_tool_key(t, tp, semantic_key_kwargs_for_tool(tp, t, one_way))

\* C38: for every pair of plans and every category, a fingerprint that differs
\* between the two plans implies that the rerun flag of the category is true.
C38_ChangedFingerprintForcesRerun ==
  (conv.flags # <<>> /\ conv.prev # <<>>) =>
    \A t \in ToolNames, one_way \in BOOLEAN :
      PlanKey(conv.prev[1], t, one_way) # PlanKey(conv.new, t, one_way)
        => conv.flags[1][t]

\* two plans that differ in adults only: the hotel fingerprint differs and the
\* hotel flag is set, the activity fingerprint is the same and its flag is not
C38_Witness ==
  /\ conv.flags # <<>>
  /\ conv.prev # <<>>
  /\ {f \in PlanFields : conv.prev[1][f] # conv.new[f]} = {"adults"}
  /\ PlanKey(conv.prev[1], "search_and_compare_hotels", FALSE)
       # PlanKey(conv.new, "search_and_compare_hotels", FALSE)
  /\ conv.flags[1]["search_and_compare_hotels"]
  /\ PlanKey(conv.prev[1], "search_activities_by_city", FALSE)
       = PlanKey(conv.new, "search_activities_by_city", FALSE)
  /\ ~conv.flags[1]["search_activities_by_city"]

\* ===========================================================================
\* SpecExec: the executor loop of call_model_node, one await at a time
\* ===========================================================================
\* _tool_error_placeholder keeps the first 500 characters of the error text
MaxErrorChars == 500

\* lengths of f"{type(err).__name__}: {err}"
ErrorLengths == {40, MaxErrorChars, MaxErrorChars + 100}

\* msg = (msg[:500] + "…") if len(msg) > 500 else msg, as a length
truncated_error_length(n) == IF n > MaxErrorChars THEN MaxErrorChars + 1 ELSE n

\* tasks_and_names: the scheduled categories, appended in the order flights,
\* hotels, activities
TaskLists == {SelectSeq(ToolOrder, LAMBDA t : t \in S) : S \in (SUBSET ToolNames) \ {{}}}

\* the loop before its first iteration: the provider coroutines are created
\* but none is running
ExecInput(scheduled) ==
  [tasks |-> scheduled, tp |-> DatedPlan("Tokyo", "full_plan"), i |-> 1, pc |-> "loop",
   in_flight |-> {}, delays |-> 0, processed_messages |-> <<>>,
   outcomes |-> <<>>, error_chars |-> <<>>]

InitExec == conv \in {ExecInput(scheduled) : scheduled \in TaskLists} /\ ServerInit

\* the record of the iteration and the move to the delay or to the return
AfterCall(c, outcome, chars) ==
  [c EXCEPT
     !.in_flight = @ \ {c.tasks[c.i]},
     !.processed_messages =
        Append(@, ToolMessage(ToolContent(c.tasks[c.i], outcome, 1), c.tasks[c.i],
                              <<c.tasks[c.i],
                                compute_tool_key(c.tasks[c.i], c.tp,
                                  key_args_update(c.tp, c.tasks[c.i], FALSE, "primary")),
                                c.i - 1>>)),
     !.outcomes = Append(@, outcome),
     !.error_chars = Append(@, chars),
     !.pc = IF c.i < Len(c.tasks) THEN "sleeping" ELSE "returned"]

\* await task_coro: every scheduled provider call starts at once
AwaitTask_gathering_all ==
  /\ conv.pc = "loop"
  /\ conv' = [conv EXCEPT !.in_flight = {conv.tasks[k] : k \in conv.i..Len(conv.tasks)},
                          !.pc = "awaiting"]
  /\ UNCHANGED serverVars

\* await task_coro: the provider call of this iteration starts
AwaitTask ==
  /\ conv.pc = "loop"
  /\ conv' = [conv EXCEPT !.in_flight = @ \cup {conv.tasks[conv.i]}, !.pc = "awaiting"]
  /\ UNCHANGED serverVars

\* the provider returns; json.dumps of the result may fail
TaskReturns(outcome) ==
  /\ conv.pc = "awaiting"
  /\ conv' = AfterCall(conv, outcome,
                       IF outcome = "unserializable" THEN truncated_error_length(40) ELSE 0)
  /\ UNCHANGED serverVars

\* the exception of the provider leaves the loop
TaskRaises_propagating(n) ==
  /\ conv.pc = "awaiting"
  /\ conv' = [conv EXCEPT !.in_flight = @ \ {conv.tasks[conv.i]}, !.pc = "raised"]
  /\ UNCHANGED serverVars

\* the provider raises an exception whose text has n characters
TaskRaises(n) ==
  /\ conv.pc = "awaiting"
  /\ conv' = AfterCall(conv, "raise", truncated_error_length(n))
  /\ UNCHANGED serverVars

\* await asyncio.sleep(1.2) between two iterations
SleepEnds ==
  /\ conv.pc = "sleeping"
  /\ conv' = [conv EXCEPT !.i = @ + 1, !.delays = @ + 1, !.pc = "loop"]
  /\ UNCHANGED serverVars

NextExec ==
  \/ AwaitTask
  \/ \E outcome \in {"ok", "empty", "unserializable"} : TaskReturns(outcome)
  \/ \E n \in ErrorLengths : TaskRaises(n)
  \/ SleepEnds

SpecExec == InitExec /\ [][NextExec]_vars

\* ---------------------------------------------------------------------------
\* Properties of the executor loop (checked under SpecExec)
\* ---------------------------------------------------------------------------
\* C22: the executor never raises; every call that raised, or whose result
\* could not be serialized, has exactly one record, for its category, whose
\* payload is one placeholder with is_error = true and an error text of at
\* most 500 characters and the ellipsis; and the loop returns only after
\* every scheduled category has its record.
C22_FailureBecomesOnePlaceholder ==
  /\ conv.pc # "raised"
  /\ Len(conv.processed_messages) = Len(conv.outcomes)
  /\ conv.pc = "returned" => Len(conv.processed_messages) = Len(conv.tasks)
  /\ \A k \in 1..Len(conv.outcomes) :
       /\ conv.processed_messages[k].name = conv.tasks[k]
       /\ conv.outcomes[k] \in {"raise", "unserializable"} =>
            /\ Len(conv.processed_messages[k].content) = 1
            /\ conv.processed_messages[k].content[1].is_error
            /\ conv.error_chars[k] \in 1..(MaxErrorChars + 1)

\* flights raised with a long error text, hotels could not be serialized,
\* activities answered: three records, two of them placeholders
C22_Witness ==
  /\ conv.pc = "returned"
  /\ conv.outcomes = <<"raise", "unserializable", "ok">>
  /\ conv.error_chars[1] = MaxErrorChars + 1
  /\ Len(conv.processed_messages) = 3
  /\ ~conv.processed_messages[3].content[1].is_error

MaxTasks == 2

MaxRestarts == 1

\* the message of a /chat request: the server treats every message alike, the
\* one drawn here carries a complete request so that a turn reaches the providers
ServerUtterances == {"tripd"}

Put(f, k, v) == [x \in (DOMAIN f) \cup {k} |-> IF x = k THEN v ELSE f[x]]

Drop(f, K) == [x \in (DOMAIN f) \ K |-> f[x]]

\* a jobs entry; the entries written by the background tasks carry no thread_id
Job(status, thread_id, reply, form) ==
  [status |-> status, thread_id |-> thread_id, reply |-> reply, form_to_display |-> form]

\* a coroutine handed to BackgroundTasks.add_task
Task(kind, thread_id, message, is_continuation, resume) ==
  [kind |-> kind, thread_id |-> thread_id, message |-> message,
   is_continuation |-> is_continuation, resume |-> resume,
   pc |-> "queued", local |-> <<>>, final |-> <<>>, writer |-> 0]

LocalOrEmpty(local) == IF local = <<>> THEN EmptyState ELSE local[1]

\* the collaborators of a server run: extractor, providers and package
\* generator all answer
ServerOracle(s) ==
  [llm_ok |-> TRUE, pkg_ok |-> TRUE, iata |-> "primary",
   prov |-> [t \in SeqRange(TasksAt(s, TRUE)) |-> "ok"]]

\* the last non-human message with content, as the reply of the job
ReplyOf(msgs) ==
  LET Candidates == {i \in 1..Len(msgs) :
                       /\ msgs[i].type # "human"
                       /\ (msgs[i].type = "tool" \/ msgs[i].text # "")}
  IN IF Candidates = {} THEN "processed"
     ELSE IF msgs[Max(Candidates)].type = "tool" THEN "tool_payload"
     ELSE msgs[Max(Candidates)].text

OtherTasksOf(t, id) == {k \in DOMAIN tasks : k # id /\ tasks[k].thread_id = t}

\* the outcomes of an operation on the checkpoint store
StoreOutcomes == {"ok", "unavailable"}

\* POST /chat; _delete_checkpoint catches what adelete_thread raises and the
\* background task is added all the same
start_chat_task(t, u, c) ==
  /\ next_id <= MaxTasks
  /\ LET task_id == next_id
         running == Job("running", t, "", None)
         snap == ghost.suspended[t]
     IN IF waiting_for_resume[t] # 0
          THEN /\ jobs' = Put(jobs, task_id, running)
               /\ resp' = 409
               /\ UNCHANGED <<waiting_for_resume, checkpoints, tasks, ghost>>
          ELSE \E deleted \in (IF c THEN {"ok"} ELSE StoreOutcomes) :
               /\ jobs' = Put(jobs, task_id, running)
               /\ checkpoints' = IF c \/ deleted = "unavailable" THEN checkpoints
                                 ELSE [checkpoints EXCEPT ![t] = <<>>]
               /\ tasks' = Put(tasks, task_id, Task("chat", t, u, c, <<>>))
               /\ resp' = 200
               /\ ghost' = [ghost EXCEPT
                              !.suspended[t] = IF snap.valid THEN [snap EXCEPT !.others = TRUE]
                                               ELSE snap,
                              !.writer[t] = IF c \/ deleted = "unavailable" THEN @ ELSE 0,
                              !.store_failed = IF deleted = "unavailable"
                                                 THEN @ \cup {task_id} ELSE @]
               /\ UNCHANGED waiting_for_resume
  /\ next_id' = next_id + 1
  /\ UNCHANGED <<conv, restarts>>

\* POST /chat/customer-info
submit_customer_info(t, info) ==
  /\ next_id <= MaxTasks
  /\ LET task_id == next_id
         snap == ghost.suspended[t]
     IN /\ waiting_for_resume' = [waiting_for_resume EXCEPT ![t] = 0]
        /\ jobs' = Put(jobs, task_id, Job("running", t, "", None))
        /\ tasks' = Put(tasks, task_id, Task("resume", t, "", TRUE, <<info>>))
        /\ resp' = 200
        /\ ghost' = [ghost EXCEPT
                       !.suspended[t] = IF snap.valid /\ snap.resumes < 2
                                          THEN [snap EXCEPT !.resumes = @ + 1] ELSE snap]
  /\ next_id' = next_id + 1
  /\ UNCHANGED <<conv, checkpoints, restarts>>

\* POST /chat/resume
resume_chat(t, info) ==
  /\ next_id <= MaxTasks
  /\ LET task_id == next_id
         snap == ghost.suspended[t]
     IN /\ jobs' = Put(jobs, task_id, Job("running", t, "", None))
        /\ waiting_for_resume' = [waiting_for_resume EXCEPT ![t] = 0]
        /\ tasks' = Put(tasks, task_id, Task("resume", t, "", TRUE, <<info>>))
        /\ resp' = 200
        /\ ghost' = [ghost EXCEPT
                       !.suspended[t] = IF snap.valid /\ snap.resumes < 2
                                          THEN [snap EXCEPT !.resumes = @ + 1] ELSE snap]
  /\ next_id' = next_id + 1
  /\ UNCHANGED <<conv, checkpoints, restarts>>

\* DELETE /chat/thread/{thread_id}
clear_thread(t) ==
  /\ checkpoints' = [checkpoints EXCEPT ![t] = <<>>]
  /\ jobs' = Drop(jobs, {k \in DOMAIN jobs : jobs[k].thread_id = t})
  /\ waiting_for_resume' = [waiting_for_resume EXCEPT ![t] = 0]
  /\ resp' = 200
  /\ ghost' = [ghost EXCEPT !.suspended[t] = NoSnapshot, !.writer[t] = 0]
  /\ UNCHANGED <<conv, tasks, next_id, restarts>>

\* run_agent_in_background up to the point where graph.ainvoke has read the
\* checkpoint of the thread
run_agent_start(id) ==
  /\ id \in DOMAIN tasks
  /\ tasks[id].kind = "chat" /\ tasks[id].pc = "queued"
  /\ tasks' = [tasks EXCEPT ![id].pc = "loaded",
                            ![id].local = checkpoints[tasks[id].thread_id],
                            ![id].writer = ghost.writer[tasks[id].thread_id]]
  /\ UNCHANGED <<conv, jobs, waiting_for_resume, checkpoints, next_id, restarts, resp, ghost>>

\* graph.ainvoke(initial_state, config): the nodes run on what was read and
\* the outcome is saved as the checkpoint of the thread; when the invocation
\* raises, the except branch records the failure
run_agent_invoke(id) ==
  /\ id \in DOMAIN tasks
  /\ tasks[id].kind = "chat" /\ tasks[id].pc = "loaded"
  /\ \E outcome \in {"returns", "raises", "unavailable"} :
       IF outcome = "returns"
         THEN LET t == tasks[id].thread_id
                  start == ChatInput(LocalOrEmpty(tasks[id].local), tasks[id].message,
                                     tasks[id].is_continuation)
                  final == RunNodes(start, ServerOracle(start))
              IN /\ checkpoints' = [checkpoints EXCEPT ![t] = <<final>>]
                 /\ tasks' = [tasks EXCEPT ![id].pc = "invoked", ![id].final = <<final>>]
                 /\ ghost' = [ghost EXCEPT !.writer[t] = id]
                 /\ UNCHANGED jobs
         ELSE /\ jobs' = Put(jobs, id, Job("failed", "", "error", None))
              /\ tasks' = Drop(tasks, {id})
              /\ ghost' = [ghost EXCEPT !.store_failed =
                             IF outcome = "unavailable" THEN @ \cup {id} ELSE @]
              /\ UNCHANGED checkpoints
  /\ UNCHANGED <<conv, waiting_for_resume, next_id, restarts, resp>>

\* a background task that ends without recording its outcome
run_agent_finish_without_status(id) ==
  /\ id \in DOMAIN tasks
  /\ tasks[id].kind = "chat" /\ tasks[id].pc = "invoked"
  /\ tasks' = Drop(tasks, {id})
  /\ UNCHANGED <<conv, jobs, waiting_for_resume, checkpoints, next_id, restarts, resp, ghost>>

\* run_agent_in_background after graph.ainvoke returned
run_agent_finish(id) ==
  /\ id \in DOMAIN tasks
  /\ tasks[id].kind = "chat" /\ tasks[id].pc = "invoked"
  /\ LET t == tasks[id].thread_id
         final == tasks[id].final[1]
         snap == ghost.suspended[t]
     IN IF final.interrupt
          THEN /\ waiting_for_resume' = [waiting_for_resume EXCEPT ![t] = id]
               /\ jobs' = Put(jobs, id, Job("completed", "", "noted_needs_contact_form",
                                            "customer_info"))
               /\ ghost' = [ghost EXCEPT !.suspended[t] =
                              [valid |-> TRUE, cp |-> <<final>>, restarted |-> FALSE,
                               others |-> OtherTasksOf(t, id) # {} \/ checkpoints[t] # <<final>>,
                               resumes |-> 0]]
          ELSE /\ jobs' = Put(jobs, id, Job("completed", "", ReplyOf(final.messages),
                                            final.form_to_display))
               /\ ghost' = [ghost EXCEPT !.suspended[t] =
                              IF snap.valid THEN [snap EXCEPT !.others = TRUE] ELSE snap]
               /\ UNCHANGED waiting_for_resume
  /\ tasks' = Drop(tasks, {id})
  /\ UNCHANGED <<conv, checkpoints, next_id, restarts, resp>>

\* run_resume_in_background up to the point where graph.ainvoke has read the
\* checkpoint of the thread: the flag is popped first
run_resume_start(id) ==
  /\ id \in DOMAIN tasks
  /\ tasks[id].kind = "resume" /\ tasks[id].pc = "queued"
  /\ waiting_for_resume' = [waiting_for_resume EXCEPT ![tasks[id].thread_id] = 0]
  /\ tasks' = [tasks EXCEPT ![id].pc = "loaded",
                            ![id].local = checkpoints[tasks[id].thread_id],
                            ![id].writer = ghost.writer[tasks[id].thread_id]]
  /\ UNCHANGED <<conv, jobs, checkpoints, next_id, restarts, resp, ghost>>

\* graph.ainvoke(Command(resume=resume), config).  On a checkpoint with a
\* pending interrupt the gate node runs again with the form; on a thread with
\* nothing to resume the library either returns the stored channels or raises
run_resume_invoke(id) ==
  /\ id \in DOMAIN tasks
  /\ tasks[id].kind = "resume" /\ tasks[id].pc = "loaded"
  /\ LET t == tasks[id].thread_id
         local == tasks[id].local
         w == tasks[id].writer
     IN IF local # <<>> /\ local[1].interrupt
          THEN \E saved \in StoreOutcomes :
                 IF saved = "ok"
                   THEN LET start == ResumeInput(local[1], tasks[id].resume[1])
                            final == RunNodes(start, ServerOracle(start))
                        IN /\ checkpoints' = [checkpoints EXCEPT ![t] = <<final>>]
                           /\ tasks' = [tasks EXCEPT ![id].pc = "invoked",
                                                     ![id].final = <<final>>]
                           /\ ghost' = [ghost EXCEPT
                                          !.writer[t] = id,
                                          !.consumed = @ \cup {w},
                                          !.twice = IF w \in ghost.consumed
                                                      THEN @ \cup {w} ELSE @]
                           /\ UNCHANGED jobs
                   ELSE /\ jobs' = Put(jobs, id, Job("failed", "", "error", None))
                        /\ tasks' = Drop(tasks, {id})
                        /\ ghost' = [ghost EXCEPT !.store_failed = @ \cup {id}]
                        /\ UNCHANGED checkpoints
          ELSE \E outcome \in {"returns", "raises"} :
                 IF outcome = "returns"
                   THEN /\ tasks' = [tasks EXCEPT ![id].pc = "invoked",
                                                  ![id].final = <<LocalOrEmpty(local)>>]
                        /\ UNCHANGED <<jobs, checkpoints, ghost>>
                   ELSE /\ jobs' = Put(jobs, id, Job("failed", "", "error", None))
                        /\ tasks' = Drop(tasks, {id})
                        /\ UNCHANGED <<checkpoints, ghost>>
  /\ UNCHANGED <<conv, waiting_for_resume, next_id, restarts, resp>>

\* run_resume_in_background after graph.ainvoke returned
run_resume_finish(id) ==
  /\ id \in DOMAIN tasks
  /\ tasks[id].kind = "resume" /\ tasks[id].pc = "invoked"
  /\ LET t == tasks[id].thread_id
         final == tasks[id].final[1]
     IN /\ jobs' = Put(jobs, id,
                       IF final.interrupt
                         THEN Job("completed", "", "still_need_information", "customer_info")
                         ELSE Job("completed", "", ReplyOf(final.messages), None))
        /\ ghost' = [ghost EXCEPT
                       !.suspended[t] = NoSnapshot,
                       !.survived = @ \/ (/\ ghost.suspended[t].valid
                                          /\ ghost.suspended[t].restarted
                                          /\ ~ghost.suspended[t].others
                                          /\ ghost.suspended[t].resumes = 1)]
  /\ tasks' = Drop(tasks, {id})
  /\ UNCHANGED <<conv, waiting_for_resume, checkpoints, next_id, restarts, resp>>

\* a restart that also loses the checkpoint database
Restart_losing_checkpoints ==
  /\ restarts < MaxRestarts
  /\ jobs' = <<>>
  /\ waiting_for_resume' = [t \in Threads |-> 0]
  /\ tasks' = <<>>
  /\ checkpoints' = [t \in Threads |-> <<>>]
  /\ restarts' = restarts + 1
  /\ resp' = NoResp
  /\ ghost' = [ghost EXCEPT !.suspended =
                 [t \in Threads |-> IF @[t].valid THEN [@[t] EXCEPT !.restarted = TRUE]
                                    ELSE @[t]]]
  /\ UNCHANGED <<conv, next_id>>

\* the process restarts: the module-level dicts and the running coroutines
\* are gone, the SQLite file stays
Restart ==
  /\ restarts < MaxRestarts
  /\ jobs' = <<>>
  /\ waiting_for_resume' = [t \in Threads |-> 0]
  /\ tasks' = <<>>
  /\ restarts' = restarts + 1
  /\ resp' = NoResp
  /\ ghost' = [ghost EXCEPT !.suspended =
                 [t \in Threads |-> IF @[t].valid THEN [@[t] EXCEPT !.restarted = TRUE]
                                    ELSE @[t]]]
  /\ UNCHANGED <<conv, checkpoints, next_id>>

TaskIds == 1..MaxTasks

NextServer ==
  \/ \E t \in Threads, u \in ServerUtterances, c \in BOOLEAN : start_chat_task(t, u, c)
  \/ \E t \in Threads, info \in CustomerForms : submit_customer_info(t, info)
  \/ \E t \in Threads, info \in CustomerForms : resume_chat(t, info)
  \/ \E t \in Threads : clear_thread(t)
  \/ \E id \in TaskIds : run_agent_start(id)
  \/ \E id \in TaskIds : run_agent_invoke(id)
  \/ \E id \in TaskIds : run_agent_finish(id)
  \/ \E id \in TaskIds : run_resume_start(id)
  \/ \E id \in TaskIds : run_resume_invoke(id)
  \/ \E id \in TaskIds : run_resume_finish(id)
  \/ Restart

SpecServer == Init /\ [][NextServer]_vars

\* the event loop runs every background task that is ready, and every awaited
\* call of a task returns or raises
BackgroundStep(id) ==
  \/ run_agent_start(id)
  \/ run_agent_invoke(id)
  \/ run_agent_finish(id)
  \/ run_resume_start(id)
  \/ run_resume_invoke(id)
  \/ run_resume_finish(id)

BackgroundFairness == \A id \in TaskIds : WF_vars(BackgroundStep(id))

SpecServerFair == Init /\ [][NextServer]_vars /\ BackgroundFairness

\* ---------------------------------------------------------------------------
\* Properties of the server (checked under SpecServer)
\* ---------------------------------------------------------------------------
\* the persisted checkpoint of the thread holds a pending interrupt
CheckpointSuspended(t) == checkpoints[t] # <<>> /\ checkpoints[t][1].interrupt

\* the form was handed to the client and no resume has been requested since
AwaitingForm(t) ==
  /\ CheckpointSuspended(t)
  /\ ghost.suspended[t].valid
  /\ ghost.suspended[t].resumes = 0
  /\ ~ghost.suspended[t].others

\* this step is POST /chat for thread t
IsChatRequest(t) ==
  /\ next_id' = next_id + 1
  /\ jobs'[next_id].thread_id = t
  /\ next_id \in DOMAIN tasks' => tasks'[next_id].kind = "chat"

\* this step is POST /chat/resume or POST /chat/customer-info for thread t
\* and its background task was added
IsResumeRequest(t) ==
  /\ next_id' = next_id + 1
  /\ next_id \in DOMAIN tasks'
  /\ tasks'[next_id].kind = "resume"
  /\ tasks'[next_id].thread_id = t

\* C5: for every thread_id at most one turn, a /chat or a resume background
\* task, is accepted and unfinished at any time.
C5_AtMostOneTurnPerThread ==
  \A t \in Threads : Cardinality({id \in DOMAIN tasks : tasks[id].thread_id = t}) <= 1

\* C6: while a conversation is suspended awaiting the customer form, every
\* /chat submit for its thread is answered 409, adds no background task and
\* deletes no checkpoint.
C6_SuspendedRejectsChat ==
  [][\A t \in Threads :
       (AwaitingForm(t) /\ IsChatRequest(t))
         => (resp' = 409 /\ tasks' = tasks /\ checkpoints' = checkpoints)]_vars

\* C7: no resume request for a conversation that is not suspended (no flag,
\* no pending interrupt in its checkpoint) gets a background task.
C7_ResumeOfUnsuspendedRejected ==
  [][\A t \in Threads :
       (waiting_for_resume[t] = 0 /\ ~CheckpointSuspended(t)) => ~IsResumeRequest(t)]_vars

\* C8: an accepted resume clears the flag of its thread; its run continues a
\* pending interrupt with the submitted form merged into customer_info; and
\* no suspension is consumed by more than one resume.
C8_ResumeConsumesExactlyOnce ==
  [][/\ \A t \in Threads : IsResumeRequest(t) => waiting_for_resume'[t] = 0
     /\ \A id \in DOMAIN tasks :
          (tasks[id].kind = "resume" /\ tasks[id].pc = "loaded" /\ restarts' = restarts
           /\ (id \notin DOMAIN tasks' \/ tasks'[id].pc = "invoked"))
            => /\ tasks[id].local # <<>>
               /\ tasks[id].local[1].interrupt
               /\ id \in DOMAIN tasks'
               /\ tasks'[id].final[1].customer_info = tasks[id].resume
     /\ ghost'.twice = {}]_vars

\* the outcome of resuming the suspension of thread t with info when no
\* restart happened
ExpectedResume(t, info) ==
  LET start == ResumeInput(ghost.suspended[t].cp[1], info)
  IN RunNodes(start, ServerOracle(start))

\* C9: when the process restarted after a turn suspended and before the
\* resume, the resume run ends with the reply, plan, customer_info and records
\* that resuming the suspension without the restart produces.
C9_RestartKeepsResumeOutcome ==
  [][\A id \in DOMAIN tasks :
       LET t == tasks[id].thread_id
           snap == ghost.suspended[t]
           expected == ExpectedResume(t, tasks[id].resume[1])
       IN (/\ tasks[id].kind = "resume"
           /\ tasks[id].pc = "invoked"
           /\ id \notin DOMAIN tasks'
           /\ restarts' = restarts
           /\ snap.valid /\ snap.restarted /\ ~snap.others /\ snap.resumes = 1)
          => /\ jobs'[id] = (IF expected.interrupt
                               THEN Job("completed", "", "still_need_information", "customer_info")
                               ELSE Job("completed", "", ReplyOf(expected.messages), None))
             /\ checkpoints'[t] # <<>>
             /\ checkpoints'[t][1].travel_plan = expected.travel_plan
             /\ checkpoints'[t][1].customer_info = expected.customer_info
             /\ checkpoints'[t][1].messages = expected.messages]_vars

C9_Witness ==
  /\ ghost.survived
  /\ restarts > 0
  /\ \E t \in Threads :
       /\ checkpoints[t] # <<>>
       /\ ~checkpoints[t][1].interrupt
       /\ InfoTruthy(checkpoints[t][1].customer_info)
       /\ checkpoints[t][1].travel_plan # <<>>
       /\ \E i \in 1..Len(checkpoints[t][1].messages) :
            checkpoints[t][1].messages[i].type = "tool"

\* C10: after a restart that happened while a conversation was suspended, a
\* /chat submit for its thread is still answered 409.
C10_FlagSurvivesRestart ==
  [][\A t \in Threads :
       (AwaitingForm(t) /\ ghost.suspended[t].restarted /\ IsChatRequest(t))
         => resp' = 409]_vars

\* this step is the background task id loading the checkpoint of its thread
LoadsCheckpoint(id) ==
  /\ id \in DOMAIN tasks /\ tasks[id].pc = "queued"
  /\ id \in DOMAIN tasks' /\ tasks'[id].pc = "loaded"

\* this step is the graph invocation of task id returning
InvocationReturns(id) ==
  /\ id \in DOMAIN tasks /\ tasks[id].pc = "loaded"
  /\ id \in DOMAIN tasks' /\ tasks'[id].pc = "invoked"

\* C11: the turn started by an accepted /chat submit with is_continuation =
\* false reads no checkpoint of its thread, and so ends suspended with the
\* customer form requested, no plan, no customer info and no result record.
C11_FreshTurnSeesNoEarlierState ==
  [][\A id \in DOMAIN tasks :
       (tasks[id].kind = "chat" /\ ~tasks[id].is_continuation)
         => /\ LoadsCheckpoint(id) => tasks'[id].local = <<>>
            /\ InvocationReturns(id) =>
                 /\ tasks'[id].final[1].interrupt
                 /\ tasks'[id].final[1].form_to_display = "customer_info"
                 /\ tasks'[id].final[1].travel_plan = <<>>
                 /\ ~InfoTruthy(tasks'[id].final[1].customer_info)
                 /\ Len(tasks'[id].final[1].messages) = 1]_vars

\* nothing of thread t is stored: no checkpoint, no flag, no tagged job
Clean(t) ==
  /\ checkpoints[t] = <<>>
  /\ waiting_for_resume[t] = 0
  /\ \A k \in DOMAIN jobs : jobs[k].thread_id # t

\* this step is a request (POST /chat, /chat/resume, /chat/customer-info) for t
IsSubmit(t) ==
  /\ next_id' = next_id + 1
  /\ jobs'[next_id].thread_id = t

\* C12: once nothing of a thread is stored, as after DELETE /chat/thread/{id},
\* it stays so until the next request for the thread, whatever background
\* task of the thread was in flight.
C12_ResetStaysClean ==
  [][\A t \in Threads : (Clean(t) /\ ~IsSubmit(t)) => Clean(t)']_vars

FinalStatus == {"completed", "failed"}

\* C13: a background task that ends leaves its job completed or failed, a job
\* that is completed or failed never changes, and every accepted job's
\* background task ends.
C13_JobReachesFinalStatusOnce ==
  /\ [][/\ \A id \in DOMAIN tasks :
             (id \notin DOMAIN tasks' /\ restarts' = restarts)
               => (id \in DOMAIN jobs' /\ jobs'[id].status \in FinalStatus)
        /\ \A id \in DOMAIN jobs :
             (jobs[id].status \in FinalStatus /\ id \in DOMAIN jobs')
               => jobs'[id] = jobs[id]]_vars
  /\ \A id \in TaskIds : (id \in DOMAIN tasks) ~> (id \notin DOMAIN tasks)

C13_Witness ==
  /\ \E id \in DOMAIN jobs : jobs[id].status = "completed" /\ id \notin DOMAIN tasks
  /\ \E id \in DOMAIN jobs : jobs[id].status = "failed" /\ id \notin DOMAIN tasks

\* C29: whenever the checkpoint store is unavailable for an operation of a
\* turn (the load or save of its graph run, or the delete of a fresh start),
\* the job of the turn is never completed: it ends failed.
C29_StoreFailureFailsTurn ==
  \A id \in ghost.store_failed :
    id \in DOMAIN jobs => jobs[id].status # "completed"

\* the failure of the graph run alone: the job is failed and the checkpoint
\* of the thread is the one from before the run
C29_RunFailureFailsTurn ==
  [][\A id \in DOMAIN tasks :
       (id \in ghost'.store_failed \ ghost.store_failed)
         => /\ jobs'[id].status = "failed"
            /\ checkpoints' = checkpoints]_vars

\* ===========================================================================
\* SpecDates: _normalize_dates_or_ask applied to bounded plans
\* ===========================================================================
\* absent, malformed, 2026-04-10, 2026-04-14
DateValues == {NoDate, BadDate, 10, 14}

\* absent (None or 0), negative, positive
DurationValues == {0, -2, 4}

DateInputs ==
  {[tp |-> [TravelPlan(d) EXCEPT !.departure_date = dep, !.return_date = ret,
                                 !.duration_days = dur],
    gate |-> <<>>] :
     d \in {"", "Tokyo"}, dep \in DateValues, ret \in DateValues, dur \in DurationValues}

InitDates == conv \in DateInputs /\ ServerInit

NormalizeDates ==
  /\ conv.gate = <<>>
  /\ conv' = [conv EXCEPT !.gate = <<normalize_dates_or_ask(conv.tp)>>]
  /\ UNCHANGED serverVars

NextDates == NormalizeDates

SpecDates == InitDates /\ [][NextDates]_vars

ValidDate(d) == d # NoDate /\ parse_ymd(d) # NoDate

\* a destination, and two valid dates in order or one date with a positive
\* duration; when bare is set the other date must be absent, not malformed
DatesSufficient(tp, bare) ==
  /\ StrTruthy(tp.destination)
  /\ \/ /\ ValidDate(tp.departure_date) /\ ValidDate(tp.return_date)
        /\ tp.return_date > tp.departure_date
     \/ /\ tp.duration_days > 0
        /\ ValidDate(tp.departure_date) # ValidDate(tp.return_date)
        /\ bare => (tp.departure_date = NoDate \/ tp.return_date = NoDate)

\* what a call that succeeded or failed leaves in the plan
DatesOutcome(tp, gate) ==
  IF gate.ok
    THEN /\ ValidDate(gate.plan.departure_date) /\ ValidDate(gate.plan.return_date)
         /\ ValidDate(tp.departure_date) => gate.plan.departure_date = tp.departure_date
         /\ ValidDate(tp.return_date) => gate.plan.return_date = tp.return_date
         /\ ~ValidDate(tp.return_date)
              => gate.plan.return_date = tp.departure_date + tp.duration_days
         /\ ~ValidDate(tp.departure_date)
              => gate.plan.departure_date = tp.return_date - tp.duration_days
    ELSE /\ gate.ask # ""
         /\ gate.plan.departure_date = tp.departure_date
         /\ gate.plan.return_date = tp.return_date

\* C36: the call succeeds exactly when the plan has a destination
\* and two valid dates in order, or one valid date and a positive duration;
\* on success both dates are set, the missing one derived from the other and
\* the duration; on failure a question is returned and no date is set.
C36_GateSucceedsExactlyWhenSufficient ==
  conv.gate # <<>> =>
    /\ conv.gate[1].ok <=> DatesSufficient(conv.tp, FALSE)
    /\ DatesOutcome(conv.tp, conv.gate[1])

\* the same where "one valid date" means that the other date is absent: a
\* malformed other date makes the call ask for that date
C36_GateSucceedsExactlyWhenSufficientAndWellFormed ==
  conv.gate # <<>> =>
    /\ conv.gate[1].ok <=> DatesSufficient(conv.tp, TRUE)
    /\ DatesOutcome(conv.tp, conv.gate[1])

\* "depart 2026-04-10 for 4 days": the return date is computed as 2026-04-14
C36_Witness ==
  /\ conv.gate # <<>>
  /\ conv.tp.departure_date = 10 /\ conv.tp.return_date = NoDate
  /\ conv.tp.duration_days = 4
  /\ conv.gate[1].ok
  /\ conv.gate[1].plan.return_date = 14

\* ===========================================================================
\* SpecOneWay: synthesize_results_node applied to histories of flights records
\* fingerprinted one-way or round-trip, with either policy in the state
\* ===========================================================================
FlightRecordSpecs ==
  [dest : Destinations, outcome : {"ok", "empty", "raise"}, one_way : BOOLEAN]

\* the ToolMessage the executor appended for flights under the plan for
\* r.dest and the policy r.one_way
FlightRecordOf(r, i) ==
  LET tp == DatedPlan(r.dest, "flights_only")
  IN ToolMessage(ToolContent("search_flights", r.outcome, i), "search_flights",
                 <<"search_flights",
                   compute_tool_key("search_flights", tp,
                     semantic_key_kwargs_for_tool(tp, "search_flights", r.one_way)),
                   0>>)

FlightHistories == UNION {[1..n -> FlightRecordSpecs] : n \in 1..MaxRecords}

OneWayInput(h, d, one_way) ==
  [EmptyState EXCEPT
     !.messages = <<HumanMessage("trip")>> \o [i \in 1..Len(h) |-> FlightRecordOf(h[i], i)],
     !.travel_plan = <<DatedPlan(d, "flights_only")>>,
     !.customer_info = <<[empty |-> FALSE, budget |-> 2000]>>,
     !.original_request = "trip",
     !.current_step = "synthesizing",
     !.tools_used = <<"search_flights">>,
     !.one_way = one_way,
     !.is_continuation = TRUE,
     !.had_prev = TRUE,
     !.turn = 1]

InitOneWay ==
  /\ conv \in {OneWayInput(h, d, one_way) :
                 h \in FlightHistories, d \in Destinations, one_way \in BOOLEAN}
  /\ ServerInit

SynthesizeFlights ==
  /\ conv.current_step = "synthesizing"
  /\ conv' = synthesize_results_node(conv, [llm_ok |-> TRUE, pkg_ok |-> TRUE,
                                            iata |-> "primary", prov |-> <<>>])
  /\ UNCHANGED serverVars

NextOneWay == SynthesizeFlights

SpecOneWay == InitOneWay /\ [][NextOneWay]_vars

\* the direction part of the fingerprint stored on a flights record
DirectionOf(m) == m.tool_call_id[2][9]

\* the flights fingerprint of a plan under a policy
FlightsKey(tp, one_way) ==
  compute_tool_key("search_flights", tp,
                   semantic_key_kwargs_for_tool(tp, "search_flights", one_way))

KeysDifferByDirection ==
  \A d \in Destinations, intent \in Intents :
    FlightsKey(DatedPlan(d, intent), TRUE) # FlightsKey(DatedPlan(d, intent), FALSE)

MaxEmails == 2

Recipients == {"user@example.com", "other@example.com"}

Subjects == {"Test Subject", "Your plan"}

Bodies == {"body 1", "body 2"}

\* configured: EMAIL_SENDER and EMAIL_PASSWORD are set; calls: the arguments
\* and the return value of every call so far; delivered: the messages handed
\* to the SMTP server
InitEmail ==
  /\ conv \in [configured : BOOLEAN, calls : {<<>>}, delivered : {<<>>}]
  /\ ServerInit

send_email_notification(to_email, subject, body) ==
  /\ Len(conv.calls) < MaxEmails
  /\ \E smtp \in {"ok", "raises"} :
       LET key == <<to_email, subject, body>>
           result == IF ~conv.configured THEN "mock_email_to_console"
                     ELSE IF smtp = "ok" THEN "sent_successfully"
                     ELSE "failed_to_send"
       IN conv' = [conv EXCEPT
                     !.calls = Append(@, [key |-> key, result |-> result]),
                     !.delivered = IF conv.configured /\ smtp = "ok"
                                     THEN Append(@, key) ELSE @]
  /\ UNCHANGED serverVars

NextEmail ==
  \E to_email \in Recipients, subject \in Subjects, body \in Bodies :
    send_email_notification(to_email, subject, body)

SpecEmail == InitEmail /\ [][NextEmail]_vars

\* C34: after one call with given recipient, subject and body, a second call
\* with the same three values sends nothing and returns the notice that a
\* duplicate was skipped.
C34_SecondSendSkipped ==
  \A i, j \in 1..Len(conv.calls) :
    (i < j /\ conv.calls[i].key = conv.calls[j].key)
      => /\ conv.calls[j].result = "skipped_duplicate"
         /\ Cardinality({n \in 1..Len(conv.delivered) :
                           conv.delivered[n] = conv.calls[j].key}) <= 1

\* ===========================================================================
\* SpecRetry: tools.py search_flights, one call from entry to return
\* ===========================================================================
max_attempts == 3

ReturnDates == {NoDate, 14}

TravelClasses == {None, "economy", "luxury"}

CabinNames == {"ECONOMY", "PREMIUM_ECONOMY", "BUSINESS", "FIRST"}

Upper(s) == IF s = "economy" THEN "ECONOMY" ELSE IF s = "luxury" THEN "LUXURY" ELSE s

\* what one provider call does: a list of n offers, a response without data,
\* a response that parses to no offer, an Amadeus ResponseError, or any other
\* exception raised inside the try block
AttemptOutcomes == {"offers_1", "offers_4", "no_data", "no_offers", "ResponseError", "Exception"}

AttemptFailed(o) == o \in {"ResponseError", "Exception"}

FlightPlaceholder(airline) == <<[airline |-> airline, is_error |-> TRUE]>>

FlightOffers(n) == [i \in 1..n |-> [airline |-> "offer", is_error |-> FALSE]]

search_params(returnDate, travelClass) ==
  [returnDate |-> returnDate,
   travelClass |-> IF travelClass # None /\ Upper(travelClass) \in CabinNames
                     THEN Upper(travelClass) ELSE None]

\* locations: whether both place names convert to airport codes; amadeus:
\* whether the client exists; pc: the position inside the call; attempt and
\* delay: the loop variables; outcomes: what each provider call did; waits:
\* the delays slept so far; result: the returned list
InitRetry ==
  /\ conv \in [locations : {"ok", "raises"}, amadeus : BOOLEAN,
               returnDate : ReturnDates, travelClass : TravelClasses,
               pc : {"start"}, params : {<<>>}, attempt : {1}, delay : {1},
               last_error : {None}, outcomes : {<<>>}, waits : {<<>>},
               result : {<<>>}]
  /\ ServerInit

convert_locations ==
  /\ conv.pc = "start"
  /\ conv' = IF conv.locations = "raises"
               THEN [conv EXCEPT !.pc = "done", !.result = FlightPlaceholder("LOCATION_ERROR")]
             ELSE IF ~conv.amadeus
               THEN [conv EXCEPT !.pc = "done", !.result = FlightPlaceholder("API_NOT_AVAILABLE")]
             ELSE [conv EXCEPT !.pc = "attempt",
                               !.params = <<search_params(conv.returnDate, conv.travelClass)>>]
  /\ UNCHANGED serverVars

provider_attempt ==
  /\ conv.pc = "attempt"
  /\ \E o \in AttemptOutcomes :
       conv' = IF AttemptFailed(o)
                 THEN [conv EXCEPT !.outcomes = Append(@, o), !.last_error = o,
                                   !.pc = IF conv.attempt < max_attempts
                                            THEN "sleep" ELSE "after_loop"]
               ELSE [conv EXCEPT !.outcomes = Append(@, o), !.pc = "done",
                                 !.result = IF o = "offers_1" THEN FlightOffers(1)
                                            ELSE IF o = "offers_4" THEN FlightOffers(3)
                                            ELSE <<>>]
  /\ UNCHANGED serverVars

\* the loop with a delay that stays what it was
backoff_sleep_constant ==
  /\ conv.pc = "sleep"
  /\ conv' = [conv EXCEPT !.waits = Append(@, conv.delay),
                          !.attempt = @ + 1, !.pc = "attempt"]
  /\ UNCHANGED serverVars

backoff_sleep ==
  /\ conv.pc = "sleep"
  /\ conv' = [conv EXCEPT !.waits = Append(@, conv.delay), !.delay = @ * 2,
                          !.attempt = @ + 1, !.pc = "attempt"]
  /\ UNCHANGED serverVars

after_retries ==
  /\ conv.pc = "after_loop"
  /\ conv' = [conv EXCEPT !.pc = "done",
                          !.result = IF conv.last_error # None
                                       THEN FlightPlaceholder("API_ERROR") ELSE <<>>]
  /\ UNCHANGED serverVars

NextRetry ==
  \/ convert_locations
  \/ provider_attempt
  \/ backoff_sleep
  \/ after_retries

SpecRetry == InitRetry /\ [][NextRetry]_vars

\* every await of the call completes, so the coroutine always takes its next step
SpecRetryFair == SpecRetry /\ WF_vars(NextRetry)

RECURSIVE Pow2(_)
Pow2(n) == IF n = 0 THEN 1 ELSE 2 * Pow2(n - 1)

RetryShape ==
  /\ Len(conv.outcomes) <= 3
  /\ \A i \in 1..Len(conv.outcomes) - 1 : AttemptFailed(conv.outcomes[i])
  /\ \A i \in 1..Len(conv.waits) : conv.waits[i] = Pow2(i - 1)
  /\ Len(conv.waits) \in {Len(conv.outcomes) - 1, Len(conv.outcomes)} \cup {0}
  /\ conv.pc = "done" =>
       /\ Len(conv.waits) = IF conv.outcomes = <<>> THEN 0 ELSE Len(conv.outcomes) - 1
       /\ (conv.outcomes # <<>> /\ AttemptFailed(conv.outcomes[Len(conv.outcomes)]))
            => /\ Len(conv.outcomes) = 3
               /\ Len(conv.result) = 1
               /\ conv.result[1].is_error

\* C37: one call of search_flights makes at most 3 provider attempts, sleeps
\* 1, 2, ... (each delay twice the one before) between consecutive attempts,
\* makes no attempt after one that succeeded, returns exactly one error
\* placeholder after the last failed attempt, and always returns.
C37_BoundedBackoffRetryTerminates ==
  /\ []RetryShape
  /\ <>(conv.pc = "done")

C37_Witness ==
  /\ conv.pc = "done"
  /\ Len(conv.outcomes) = 3
  /\ conv.waits = <<1, 2>>
  /\ conv.result = FlightPlaceholder("API_ERROR")

\* the tasks that wrote, in this step, a completed job asking for the
\* customer_info form after an invocation that ended in an interrupt
InterruptJobsWritten ==
  {id \in DOMAIN tasks :
     /\ tasks[id].pc = "invoked" /\ tasks[id].final[1].interrupt
     /\ id \in DOMAIN jobs' /\ jobs'[id].status = "completed"
     /\ jobs'[id].form_to_display = "customer_info"
     /\ (id \in DOMAIN jobs => jobs[id].status = "running")}

\* C40: every job result produced by an interrupt with
\* form_to_display = customer_info, a resume that interrupts again included,
\* leaves the thread marked as awaiting resume, and no thread is marked while
\* a resume for it is running.
C40_InterruptJobLeavesThreadMarked ==
  [][/\ \A id \in InterruptJobsWritten : waiting_for_resume'[tasks[id].thread_id] # 0
     /\ \A id \in DOMAIN tasks' :
          (tasks'[id].kind = "resume" /\ tasks'[id].pc \in {"loaded", "invoked"})
            => waiting_for_resume'[tasks'[id].thread_id] = 0]_vars

\* the first conjunct of C40 alone, for the resume runner
C40_ResumeInterruptLeavesThreadMarked ==
  [][\A id \in InterruptJobsWritten :
       tasks[id].kind = "resume" => waiting_for_resume'[tasks[id].thread_id] # 0]_vars

\* the first conjunct of C40 alone, for the chat runner
C40_ChatInterruptLeavesThreadMarked ==
  [][\A id \in InterruptJobsWritten :
       tasks[id].kind = "chat" => waiting_for_resume'[tasks[id].thread_id] # 0]_vars

\* the second conjunct of C40 alone
C40_NoMarkWhileResumeRuns ==
  \A id \in DOMAIN tasks :
    (tasks[id].kind = "resume" /\ tasks[id].pc \in {"loaded", "invoked"})
      => waiting_for_resume[tasks[id].thread_id] = 0

====
